---- MODULE Spec2Model ----
(***************************************************************************)
(* Model of the upload-processing pipeline of the drive backend:           *)
(*   - the chunk planner        (internal/fileprocessor/obfuscator.go)     *)
(*   - the obfuscation codec    (obfuscator.go / deobfuscator.go)          *)
(*   - the upload session state machine and the background pipeline        *)
(*     (filehandlers + fileprocessor session helpers + store)              *)
(* Three specifications share the module: SpecPlan and SpecCodec apply the *)
(* pure functions to inputs drawn from bounded sets, Spec is the session   *)
(* state machine with its concurrent request handlers and pipelines.       *)
(***************************************************************************)
EXTENDS Integers, Sequences, FiniteSets, TLC

(***************************************************************************)
(* Bounds of the model (not program constants).                            *)
(***************************************************************************)
MaxDrives == 3
MaxFree == 2
MaxFileSize == 3
\* codec: input length, block size, min gap; the 32 KiB read buffer scaled down
MaxN == 6
MaxBlock == 4
MaxGap == 4
ReadBufferSize == 2

VARIABLES
    codecPc,    \* "start", "obfuscated", "done", or "crashed" (runtime panic)
    codecIn,    \* [data, keys, B, p, g]: input bytes, keystream words, parameters
    codecObf,   \* the obfuscated file written by ObfuscateFile
    codecOut,   \* result of DeobfuscateFile: [status, out]
    planPc,     \* "call" before the CalculateChunkPlan call, "done" after it
    planIn,     \* arguments of the call
    planOut     \* its result: [ok, plan]

planVars == <<planPc, planIn, planOut>>
codecVars == <<codecPc, codecIn, codecObf, codecOut>>

VARIABLES sessions, tempLen, received, chunkReqs, finReqs, runs, storedFiles, keyFiles, chunkCount, expired, initReqs

VARIABLES manifest, adders, added, addCount

VARIABLES splitPc, splitIn, chunkFiles, chunkPaths, joined

splitVars == <<splitPc, splitIn, chunkFiles, chunkPaths, joined>>

\* the state of the parts that stand outside sessions, planner, codec and manifest
VARIABLE roundTrip

VARIABLES dlFiles, dlAccounts, dlSessions, dlJobs, dlReq, dlReply

dlVars == <<dlFiles, dlAccounts, dlSessions, dlJobs, dlReq, dlReply>>

VARIABLES cleaned, tempRemoved

cleanVars == <<cleaned, tempRemoved>>

VARIABLES authReply, handlerRuns

authVars == <<authReply, handlerRuns>>

VARIABLE sessReply

\* the finalize request's cancellation scope and the pipeline started in it
VARIABLE scope

\* the manifest blobs on one drive and the GetOrCreateManifest calls on it
VARIABLES driveBlobs, manifestCalls

gocVars == <<driveBlobs, manifestCalls>>

\* one DownloadChunksParallel call and its goroutines
VARIABLES pool, workers

poolVars == <<pool, workers>>

\* download sessions in processDownload, the temp artifacts on disk (the
\* session that wrote each, 0 when absent) and the collisions seen so far
VARIABLES tempProcs, tempFs, tempCollisions

tempVars == <<tempProcs, tempFs, tempCollisions>>

\* the byte positions of its file the uploading client has sent so far
VARIABLE clientSent

concVars == <<scope, gocVars, poolVars, tempVars, clientSent>>

scopeFrame == <<gocVars, poolVars, tempVars, clientSent>>

gocFrame == <<scope, poolVars, tempVars, clientSent>>

poolFrame == <<scope, gocVars, tempVars, clientSent>>

tempFrame == <<scope, gocVars, poolVars, clientSent>>

clientFrame == <<scope, gocVars, poolVars, tempVars>>

reqVars == <<dlVars, cleanVars, authVars, sessReply, concVars>>

auxVars == <<splitVars, roundTrip, reqVars>>

maniVars == <<manifest, adders, added, addCount>>

sessVars == <<sessions, tempLen, received, chunkReqs, finReqs, runs, storedFiles, keyFiles, chunkCount, expired, initReqs>>

Min(a, b) == IF a < b THEN a ELSE b
Max(a, b) == IF a > b THEN a ELSE b

\* sequences over S of length 0..n
SeqUpTo(S, n) == UNION {[1..k -> S] : k \in 0..n}

(***************************************************************************)
(* Chunk planner.  A drive is [id, free, avail]; a plan entry is a         *)
(* models.ChunkPlan.  A result is [ok |-> BOOLEAN, plan |-> sequence].     *)
(* The proportional strategy computes its shares in float64.               *)
(***************************************************************************)
StrategyGreedy == "greedy"
StrategyBalanced == "balanced"
StrategyProportional == "proportional"
StrategyManual == "manual"

ChunkPlan(chunkID, drive, size, offset) ==
    [chunk_id |-> chunkID, drive_account_id |-> drive.id, size |-> size,
     start_offset |-> offset, end_offset |-> offset + size]

PlanOk(chunks) == [ok |-> TRUE, plan |-> chunks]
PlanErr == [ok |-> FALSE, plan |-> <<>>]

RECURSIVE SumFree(_)
SumFree(drives) ==
    IF drives = <<>> THEN 0 ELSE Head(drives).free + SumFree(Tail(drives))

\* sort.Slice(drives, free descending); insertion order is kept among equals
\* (sort.Slice uses insertion sort for slices shorter than 12).
RECURSIVE InsertDesc(_, _)
InsertDesc(sorted, d) ==
    IF sorted = <<>> THEN <<d>>
    ELSE IF d.free > Head(sorted).free THEN <<d>> \o sorted
    ELSE <<Head(sorted)>> \o InsertDesc(Tail(sorted), d)

\* variant: the drives left in input order
SortByFreeDesc_Mutant(drives) == drives

RECURSIVE SortByFreeDesc(_)
SortByFreeDesc(drives) ==
    IF drives = <<>> THEN <<>>
    ELSE InsertDesc(SortByFreeDesc(SubSeq(drives, 1, Len(drives) - 1)),
                    drives[Len(drives)])

RECURSIVE GreedyLoop(_, _, _, _)
GreedyLoop(drives, i, remaining, chunks) ==
    IF i > Len(drives) \/ remaining <= 0 THEN [remaining |-> remaining, chunks |-> chunks]
    ELSE LET chunkSize == Min(remaining, drives[i].free)
             offset == IF chunks = <<>> THEN 0 ELSE chunks[Len(chunks)].end_offset
         IN GreedyLoop(drives, i + 1, remaining - chunkSize,
                       Append(chunks, ChunkPlan(Len(chunks) + 1, drives[i], chunkSize, offset)))

calculateGreedyPlan(fileSize, drives) ==
    LET r == GreedyLoop(SortByFreeDesc(drives), 1, fileSize, <<>>)
    IN IF r.remaining > 0 THEN PlanErr ELSE PlanOk(r.chunks)

\* "Ensure chunk fits in drive"
BalancedClamp(chunkSize, drive) == Min(chunkSize, drive.free)

RECURSIVE BalancedLoop(_, _, _, _, _)
BalancedLoop(drives, i, target, remaining, chunks) ==
    IF i > Len(drives) \/ remaining <= 0 THEN [remaining |-> remaining, chunks |-> chunks]
    ELSE LET wanted == IF i = Len(drives) THEN remaining ELSE target
             chunkSize == Min(BalancedClamp(wanted, drives[i]), remaining)
             offset == IF chunks = <<>> THEN 0 ELSE chunks[Len(chunks)].end_offset
         IN IF chunkSize > 0
            THEN BalancedLoop(drives, i + 1, target, remaining - chunkSize,
                              Append(chunks, ChunkPlan(Len(chunks) + 1, drives[i], chunkSize, offset)))
            ELSE BalancedLoop(drives, i + 1, target, remaining, chunks)

\* Go's integer division truncates toward zero
GoDiv(a, b) == IF a >= 0 THEN a \div b ELSE -((-a) \div b)

calculateBalancedPlan(fileSize, drives) ==
    LET r == BalancedLoop(drives, 1, GoDiv(fileSize, Len(drives)), fileSize, <<>>)
    IN IF r.remaining > 0 THEN calculateGreedyPlan(fileSize, drives) ELSE PlanOk(r.chunks)

(***************************************************************************)
(* float64 arithmetic of the proportional strategy.  A significand is a    *)
(* sequence of bits, most significant first; a positive float64 below 1 is *)
(* [sig, places]: the integer sig divided by 2^places.  Division and       *)
(* multiplication round to nearest, ties to even, as IEEE 754 does;        *)
(* int64(x) truncates.  Operands are small integers; only the significands *)
(* are wide.                                                               *)
(***************************************************************************)
MantissaBits == 53

LimbBits == 16

LimbBase == 2 ^ LimbBits

\* the value of a short bit string
RECURSIVE BitsToInt(_)
BitsToInt(b) ==
    IF b = <<>> THEN 0
    ELSE IF Len(b) = 1 THEN b[1]
    ELSE BitsToInt(SubSeq(b, 1, Len(b) \div 2)) * (2 ^ (Len(b) - Len(b) \div 2))
           + BitsToInt(SubSeq(b, Len(b) \div 2 + 1, Len(b)))

\* the bit string without its leading zero bits
StripZeros(s) ==
    IF \A j \in 1..Len(s) : s[j] = 0 THEN <<>>
    ELSE SubSeq(s, CHOOSE f \in 1..Len(s) : s[f] = 1 /\ \A j \in 1..(f - 1) : s[j] = 0, Len(s))

\* the bits of the limbs, most significant limb last in the sequence
LimbsToBits(limbs) ==
    [p \in 1..(LimbBits * Len(limbs)) |->
        (limbs[Len(limbs) - ((p - 1) \div LimbBits)]
            \div (2 ^ (LimbBits - 1 - ((p - 1) % LimbBits)))) % 2]

IntToBits(c) == StripZeros(LimbsToBits(<<c % LimbBase, c \div LimbBase>>))

\* the position of the last zero bit of s
LastZero(s) == CHOOSE z \in 1..Len(s) : s[z] = 0 /\ \A j \in (z + 1)..Len(s) : s[j] = 1

\* the significand plus one unit in its last place
IncBits(s) ==
    IF \A j \in 1..Len(s) : s[j] = 1 THEN <<1>> \o [j \in 1..Len(s) |-> 0]
    ELSE [j \in 1..Len(s) |->
            IF j < LastZero(s) THEN s[j] ELSE IF j = LastZero(s) THEN 1 ELSE 0]

\* round a bit string to MantissaBits bits, ties to even; sticky tells
\* whether nonzero bits follow the string
RoundBits(str, sticky) ==
    IF Len(str) <= MantissaBits THEN str
    ELSE IF /\ str[MantissaBits + 1] = 1
            /\ \/ sticky
               \/ \E j \in (MantissaBits + 2)..Len(str) : str[j] = 1
               \/ str[MantissaBits] = 1
    THEN IncBits(SubSeq(str, 1, MantissaBits))
    ELSE SubSeq(str, 1, MantissaBits)

\* zero bits of a/d after the binary point before its first one bit
RECURSIVE LeadingZeros(_, _)
LeadingZeros(a, d) == IF 2 * a >= d THEN 0 ELSE 1 + LeadingZeros(2 * a, d)

\* 2^e modulo dd
RECURSIVE TwoPowMod(_, _)
TwoPowMod(e, dd) ==
    IF e < LimbBits THEN (2 ^ e) % dd
    ELSE ((LimbBase % dd) * TwoPowMod(e - LimbBits, dd)) % dd

\* the first m bits of the binary expansion of r/dd, and what is left:
\* bit j is the quotient digit of the remainder after j - 1 steps
DivBits(r, dd, m) ==
    [bits |-> [j \in 1..m |-> (2 * ((r * TwoPowMod(j - 1, dd)) % dd)) \div dd],
     rem |-> (r * TwoPowMod(m, dd)) % dd]

FloatQuotient(qr, lz) ==
    [sig |-> RoundBits(qr.bits, qr.rem # 0), places |-> lz + MantissaBits]

\* float64(num) / float64(den) for 0 < num < den
FloatDiv(num, den) ==
    FloatQuotient(DivBits(num * (2 ^ LeadingZeros(num, den)), den, MantissaBits + 1),
                  LeadingZeros(num, den))

\* limb j of the bit string w, limb 0 the least significant
Limb(w, j) ==
    BitsToInt(SubSeq(w, Max(1, Len(w) - LimbBits * j - (LimbBits - 1)),
                     Len(w) - LimbBits * j))

\* the carry into limb j of w times k
RECURSIVE MulCarry(_, _, _)
MulCarry(w, k, j) ==
    IF j = 0 THEN 0 ELSE (Limb(w, j - 1) * k + MulCarry(w, k, j - 1)) \div LimbBase

\* the bit string w times the small integer k
MulBits(w, k) ==
    StripZeros(LimbsToBits(
        [j \in 1..((Len(w) + LimbBits - 1) \div LimbBits + 1) |->
            (Limb(w, j - 1) * k + MulCarry(w, k, j - 1)) % LimbBase]))

\* the first places of the bit string t: its value divided by 2^shift
TruncBits(t, shift) == BitsToInt(SubSeq(t, 1, Len(t) - shift))

FloatProductTrunc(prod, places) ==
    TruncBits(RoundBits(prod, FALSE), places - Max(Len(prod) - MantissaBits, 0))

\* int64(float64(n) * q) for n > 0 and q = sig / 2^places
FloatMulTrunc(n, q) == FloatProductTrunc(MulBits(q.sig, n), q.places)

\* int64(float64(fileSize) * (float64(free) / float64(total)))
ProportionalShare(fileSize, free, total) ==
    IF fileSize = 0 THEN 0
    ELSE IF free = total THEN fileSize
    ELSE IF fileSize < 0 THEN 0 - FloatMulTrunc(0 - fileSize, FloatDiv(free, total))
    ELSE FloatMulTrunc(fileSize, FloatDiv(free, total))

RECURSIVE ProportionalLoop(_, _, _, _, _, _)
ProportionalLoop(drives, i, fileSize, totalSpace, allocated, chunks) ==
    IF i > Len(drives) THEN [allocated |-> allocated, chunks |-> chunks]
    ELSE LET share == IF i = Len(drives) THEN fileSize - allocated
                      ELSE ProportionalShare(fileSize, drives[i].free, totalSpace)
             chunkSize == Min(share, drives[i].free)
             offset == IF chunks = <<>> THEN 0 ELSE chunks[Len(chunks)].end_offset
         IN IF chunkSize > 0
            THEN ProportionalLoop(drives, i + 1, fileSize, totalSpace, allocated + chunkSize,
                                  Append(chunks, ChunkPlan(Len(chunks) + 1, drives[i], chunkSize, offset)))
            ELSE ProportionalLoop(drives, i + 1, fileSize, totalSpace, allocated, chunks)

calculateProportionalPlan(fileSize, drives) ==
    LET r == ProportionalLoop(drives, 1, fileSize, SumFree(drives), 0, <<>>)
    IN IF r.allocated < fileSize THEN PlanErr ELSE PlanOk(r.chunks)

RECURSIVE SumSeq(_)
SumSeq(s) == IF s = <<>> THEN 0 ELSE Head(s) + SumSeq(Tail(s))

RECURSIVE ManualLoop(_, _, _, _)
ManualLoop(drives, manualSizes, i, chunks) ==
    IF i > Len(manualSizes) THEN chunks
    ELSE LET offset == IF chunks = <<>> THEN 0 ELSE chunks[Len(chunks)].end_offset
         IN IF manualSizes[i] > 0
            THEN ManualLoop(drives, manualSizes, i + 1,
                            Append(chunks, ChunkPlan(i, drives[i], manualSizes[i], offset)))
            ELSE ManualLoop(drives, manualSizes, i + 1, chunks)

calculateManualPlan(fileSize, drives, manualSizes) ==
    IF Len(manualSizes) # Len(drives) THEN PlanErr
    ELSE IF \E i \in 1..Len(manualSizes) :
                manualSizes[i] < 0 \/ manualSizes[i] > drives[i].free THEN PlanErr
    ELSE IF SumSeq(manualSizes) # fileSize THEN PlanErr
    ELSE PlanOk(ManualLoop(drives, manualSizes, 1, <<>>))

\* variant: the filter without the Available test
UsableDrive_Mutant(d) == d.free > 0

\* variant: the filter without the FreeSpace test
UsableDrive_IgnoresFree(d) == d.avail

\* the filter of CalculateChunkPlan: d.Available && d.FreeSpace > 0
UsableDrive(d) == d.avail /\ d.free > 0

CalculateChunkPlan(fileSize, driveSpaces, strategy, manualSizes) ==
    LET availableDrives == SelectSeq(driveSpaces, UsableDrive)
        totalAvailable == SumFree(availableDrives)
    IN IF availableDrives = <<>> THEN PlanErr
       ELSE IF totalAvailable < fileSize THEN PlanErr
       ELSE CASE strategy = StrategyGreedy -> calculateGreedyPlan(fileSize, availableDrives)
              [] strategy = StrategyBalanced -> calculateBalancedPlan(fileSize, availableDrives)
              [] strategy = StrategyProportional -> calculateProportionalPlan(fileSize, availableDrives)
              [] strategy = StrategyManual -> calculateManualPlan(fileSize, availableDrives, manualSizes)
              [] OTHER -> PlanErr

(***************************************************************************)
(* Obfuscation codec.  A file is a sequence of bytes; noise bytes are      *)
(* written as NoiseByte, input bytes as positive tags.  The ChaCha20       *)
(* keystream is the sequence `keys` of 64-bit words (the first 8k bytes);  *)
(* the same seed gives the same words in both directions.  float64         *)
(* overhead arithmetic is modelled with an integer percentage.             *)
(***************************************************************************)
NoiseByte == 0

NoiseBlock(blockSize) == [j \in 1..blockSize |-> NoiseByte]

KeyWord(keys, i) == IF i <= Len(keys) THEN keys[i] ELSE 0

\* ObfuscateFile: targetOverhead / blockSize, at least 1
NumInjections(originalSize, overheadPct, blockSize) ==
    LET targetOverhead == (originalSize * overheadPct) \div 100
        n == targetOverhead \div blockSize
    IN IF n = 0 THEN 1 ELSE n

\* one inner pass of the bubble sort: j = 0 .. len-i-2
RECURSIVE BubblePass(_, _, _)
BubblePass(offsets, j, last) ==
    IF j > last THEN offsets
    ELSE IF offsets[j] > offsets[j + 1]
         THEN BubblePass([offsets EXCEPT ![j] = offsets[j + 1], ![j + 1] = offsets[j]], j + 1, last)
         ELSE BubblePass(offsets, j + 1, last)

RECURSIVE BubbleSort(_, _)
BubbleSort(offsets, i) ==
    IF i >= Len(offsets) THEN offsets
    ELSE BubbleSort(BubblePass(offsets, 1, Len(offsets) - i), i + 1)

\* maxOffset := fileSize - minGap; if maxOffset < 0 { maxOffset = fileSize }
MaxOffset(fileSize, minGap) ==
    IF fileSize - minGap < 0 THEN fileSize ELSE fileSize - minGap

\* [panic, offsets]; val % uint64(0) is a runtime panic (integer divide by zero)
generateInjectionOffsets(keys, fileSize, numInjections, minGap) ==
    LET maxOffset == MaxOffset(fileSize, minGap) IN
    IF numInjections > 0 /\ maxOffset = 0
    THEN [panic |-> TRUE, offsets |-> <<>>]
    ELSE [panic |-> FALSE,
          offsets |-> BubbleSort([i \in 1..numInjections |-> KeyWord(keys, i) % maxOffset], 1)]

\* the inner for loop of streamInjectNoise on one read of n bytes at currentOffset
RECURSIVE InjectInRead(_, _, _, _, _, _, _)
InjectInRead(data, offsets, blockSize, currentOffset, n, offsetIdx, out) ==
    IF /\ offsetIdx <= Len(offsets)
       /\ offsets[offsetIdx] >= currentOffset
       /\ offsets[offsetIdx] < currentOffset + n
    THEN LET relativePos == offsets[offsetIdx] - currentOffset
         IN InjectInRead(data, offsets, blockSize, offsets[offsetIdx], n - relativePos,
                         offsetIdx + 1,
                         out \o SubSeq(data, currentOffset + 1, currentOffset + relativePos)
                             \o NoiseBlock(blockSize))
    ELSE [out |-> out \o SubSeq(data, currentOffset + 1, currentOffset + n),
          offsetIdx |-> offsetIdx,
          currentOffset |-> currentOffset + n]

RECURSIVE InjectReads(_, _, _, _, _, _)
InjectReads(data, offsets, blockSize, currentOffset, offsetIdx, out) ==
    IF currentOffset >= Len(data) THEN out
    ELSE LET n == Min(ReadBufferSize, Len(data) - currentOffset)
             r == InjectInRead(data, offsets, blockSize, currentOffset, n, offsetIdx, out)
         IN InjectReads(data, offsets, blockSize, r.currentOffset, r.offsetIdx, r.out)

streamInjectNoise(data, offsets, blockSize) ==
    InjectReads(data, offsets, blockSize, 0, 1, <<>>)

\* the ChaCha20 key size: NewUnauthenticatedCipher refuses any other seed
SeedSize == 32

\* [status, out, processedSize]. A seed of the wrong length is the error of
\* NewUnauthenticatedCipher. A block size of 0 is an integer division by
\* zero in targetOverhead / blockSize; a negative one is a negative length
\* in make([]byte, numInjections*8) or make([]byte, blockSize): all panics
ObfuscateFile(data, seedLen, keys, blockSize, overheadPct, minGap) ==
    IF seedLen # SeedSize THEN [status |-> "error", out |-> <<>>, processedSize |-> 0]
    ELSE IF blockSize <= 0 THEN [status |-> "panic", out |-> <<>>, processedSize |-> 0]
    ELSE LET originalSize == Len(data)
             numInjections == NumInjections(originalSize, overheadPct, blockSize)
             gen == generateInjectionOffsets(keys, originalSize, numInjections, minGap)
             out == streamInjectNoise(data, gen.offsets, blockSize)
         IN IF gen.panic THEN [status |-> "panic", out |-> <<>>, processedSize |-> 0]
            ELSE [status |-> "ok", out |-> out, processedSize |-> Len(out)]

adjustOffsetsForProcessedFile(offsets, blockSize) ==
    [i \in 1..Len(offsets) |-> offsets[i] + (i - 1) * blockSize]

\* the inner for loop of streamRemoveNoise on one read `chunk` at currentOffset
RECURSIVE RemoveInRead(_, _, _, _, _, _, _)
RemoveInRead(chunk, offsets, blockSize, currentOffset, offsetIdx, writeStart, out) ==
    LET n == Len(chunk)
        flush == [out |-> IF writeStart < n THEN out \o SubSeq(chunk, writeStart + 1, n) ELSE out,
                  offsetIdx |-> offsetIdx]
    IN IF offsetIdx > Len(offsets) THEN flush
       ELSE LET noiseStart == offsets[offsetIdx]
                noiseEnd == noiseStart + blockSize
            IN IF noiseStart >= currentOffset /\ noiseStart < currentOffset + n
               THEN LET relativeNoiseStart == noiseStart - currentOffset
                        written == IF relativeNoiseStart > writeStart
                                   THEN out \o SubSeq(chunk, writeStart + 1, relativeNoiseStart)
                                   ELSE out
                        relativeNoiseEnd == Min(noiseEnd - currentOffset, n)
                    IN IF noiseEnd <= currentOffset + n
                       THEN RemoveInRead(chunk, offsets, blockSize, currentOffset,
                                         offsetIdx + 1, relativeNoiseEnd, written)
                       ELSE \* break: the noise block continues into the next read
                            [out |-> IF relativeNoiseEnd < n
                                     THEN written \o SubSeq(chunk, relativeNoiseEnd + 1, n)
                                     ELSE written,
                             offsetIdx |-> offsetIdx]
               ELSE IF noiseStart < currentOffset
               THEN RemoveInRead(chunk, offsets, blockSize, currentOffset, offsetIdx + 1,
                                 IF noiseEnd > currentOffset
                                 THEN Min(noiseEnd - currentOffset, n) ELSE writeStart,
                                 out)
               ELSE flush

RECURSIVE RemoveReads(_, _, _, _, _, _)
RemoveReads(obf, offsets, blockSize, currentOffset, offsetIdx, out) ==
    IF currentOffset >= Len(obf) THEN out
    ELSE LET n == Min(ReadBufferSize, Len(obf) - currentOffset)
             chunk == SubSeq(obf, currentOffset + 1, currentOffset + n)
             r == RemoveInRead(chunk, offsets, blockSize, currentOffset, offsetIdx, 0, out)
         IN RemoveReads(obf, offsets, blockSize, currentOffset + n, r.offsetIdx, r.out)

streamRemoveNoise(obf, offsets, blockSize) ==
    RemoveReads(obf, offsets, blockSize, 0, 1, <<>>)

\* [status, out]; metadata is the key file's obfuscation block [B, g]
DeobfuscateFile(obf, seedLen, keys, metadata, originalSize) ==
    LET processedSize == Len(obf)
        noiseBytes == processedSize - originalSize
        numInjections == noiseBytes \div metadata.B
        gen == generateInjectionOffsets(keys, originalSize, numInjections, metadata.g)
        injectionOffsets == IF noiseBytes > 0 /\ numInjections > 0
                            THEN adjustOffsetsForProcessedFile(gen.offsets, metadata.B)
                            ELSE <<>>
    IN IF originalSize <= 0 \/ metadata.B <= 0 THEN [status |-> "error", out |-> <<>>]
       ELSE IF originalSize > processedSize THEN [status |-> "error", out |-> <<>>]
       ELSE IF seedLen # SeedSize THEN [status |-> "error", out |-> <<>>]
       ELSE IF noiseBytes > 0 /\ noiseBytes % metadata.B # 0 THEN [status |-> "error", out |-> <<>>]
       ELSE IF noiseBytes > 0 /\ numInjections > 0 /\ gen.panic THEN [status |-> "panic", out |-> <<>>]
       ELSE [status |-> "ok", out |-> streamRemoveNoise(obf, injectionOffsets, metadata.B)]

(***************************************************************************)
(* SpecCodec: ObfuscateFile on an input, then DeobfuscateFile on its       *)
(* output with the key file's parameters and original size.                *)
(***************************************************************************)
OverheadPcts == {8, 70}
KeyWords == 0..(MaxN - 1)

CodecInit ==
    /\ codecPc = "start"
    /\ \E N \in 1..MaxN, B \in 1..MaxBlock, p \in OverheadPcts, g \in 1..MaxGap :
         \E keys \in [1..NumInjections(N, p, B) -> KeyWords] :
            codecIn = [data |-> [i \in 1..N |-> i], seedLen |-> SeedSize, keys |-> keys,
                       B |-> B, p |-> p, g |-> g]
    /\ codecObf = <<>>
    /\ codecOut = [status |-> "none", out |-> <<>>]

CodecObfuscate ==
    /\ codecPc = "start"
    /\ LET r == ObfuscateFile(codecIn.data, codecIn.seedLen, codecIn.keys, codecIn.B,
                              codecIn.p, codecIn.g)
       IN /\ codecPc' = CASE r.status = "panic" -> "crashed"
                          [] r.status = "error" -> "error"
                          [] OTHER -> "obfuscated"
          /\ codecObf' = r.out
    /\ UNCHANGED <<codecIn, codecOut, planVars, sessVars, maniVars, auxVars>>

CodecDeobfuscate ==
    /\ codecPc = "obfuscated"
    /\ codecOut' = DeobfuscateFile(codecObf, codecIn.seedLen, codecIn.keys,
                                   [B |-> codecIn.B, g |-> codecIn.g], Len(codecIn.data))
    /\ codecPc' = "done"
    /\ UNCHANGED <<codecIn, codecObf, planVars, sessVars, maniVars, auxVars>>

CodecNext == CodecObfuscate \/ CodecDeobfuscate

(***************************************************************************)
(* SpecCodecErr: the two directions called with arguments of any kind: a   *)
(* seed of the wrong length, a block size or an original size that is not  *)
(* positive, and for DeobfuscateFile a processed file of any length.       *)
(***************************************************************************)
MaxErrN == 2
MaxErrBlock == 2
MaxErrObf == 4

SeedLens == {SeedSize - 1, SeedSize}
ErrBlockSizes == (0 - 1)..MaxErrBlock

CodecErrInit ==
    /\ codecPc = "start"
    /\ \E N \in 0..MaxErrN, seedLen \in SeedLens, B \in ErrBlockSizes, g \in 1..MaxGap,
          p \in OverheadPcts :
         \E keys \in [1..MaxErrObf -> 0..1] :
            codecIn = [data |-> [i \in 1..N |-> i], seedLen |-> seedLen, keys |-> keys,
                       B |-> B, p |-> p, g |-> g]
    /\ codecObf = <<>>
    /\ codecOut = [status |-> "none", out |-> <<>>]

\* DeobfuscateFile on a processed file of processedSize bytes, with the
\* parameters and the original size of codecIn
CodecDeobfuscateAny(processedSize) ==
    /\ codecPc = "start"
    /\ codecObf' = [i \in 1..processedSize |-> i]
    /\ codecOut' = DeobfuscateFile(codecObf', codecIn.seedLen, codecIn.keys,
                                   [B |-> codecIn.B, g |-> codecIn.g], Len(codecIn.data))
    /\ codecPc' = IF codecOut'.status = "panic" THEN "crashed" ELSE "inverted"
    /\ UNCHANGED <<codecIn, planVars, sessVars, maniVars, auxVars>>

CodecErrNext ==
    \/ CodecObfuscate
    \/ \E processedSize \in 0..MaxErrObf : CodecDeobfuscateAny(processedSize)

\* C4: DeobfuscateFile(ObfuscateFile(x)) writes x, for every input and legal (B, p, g)
CodecRoundTrip ==
    /\ codecPc # "crashed"
    /\ codecPc = "done" => codecOut.status = "ok" /\ codecOut.out = codecIn.data

\* the same, where N # g and a noise block is no longer than the read buffer
CodecRoundTripRegular ==
    (Len(codecIn.data) # codecIn.g /\ codecIn.B <= ReadBufferSize) => CodecRoundTrip

(***************************************************************************)
(* SpecPlan: one CalculateChunkPlan call (CalculateChunkingHandler passes  *)
(* the request's file_size, strategy and manual sizes to it unvalidated).  *)
(***************************************************************************)
Strategies == {StrategyGreedy, StrategyBalanced, StrategyProportional, StrategyManual, "other"}

\* what GetUserDriveSpaces can report for one account, plus an unavailable
\* drive that reports free space
DriveStates == {[free |-> f, avail |-> TRUE] : f \in 0..MaxFree}
                 \cup {[free |-> 0, avail |-> FALSE], [free |-> MaxFree, avail |-> FALSE]}

DriveListsOf(n) ==
    {[i \in 1..n |-> [id |-> i, free |-> st[i].free, avail |-> st[i].avail]] :
        st \in [1..n -> DriveStates]}

DriveLists == UNION {DriveListsOf(n) : n \in 0..MaxDrives}

ManualSizeLists == SeqUpTo(-1..MaxFree, MaxDrives)

PlanInit ==
    /\ planPc = "call"
    /\ \E fs \in -1..MaxFileSize, ds \in DriveLists, st \in Strategies :
         \E ms \in IF st = StrategyManual THEN ManualSizeLists ELSE {<<>>} :
            planIn = [fileSize |-> fs, driveSpaces |-> ds, strategy |-> st, manualSizes |-> ms]
    /\ planOut = PlanErr

\* CalculateChunkingHandler: the plan or a 400
PlanCalculate ==
    /\ planPc = "call"
    /\ planPc' = "done"
    /\ planOut' = CalculateChunkPlan(planIn.fileSize, planIn.driveSpaces,
                                     planIn.strategy, planIn.manualSizes)
    /\ UNCHANGED <<planIn, codecVars, sessVars, maniVars, auxVars>>

PlanNext == PlanCalculate

\* two usable drives and file sizes large enough for a share to exceed a
\* drive and for a float64 product to fall below the exact quotient
MaxLargeFileSize == 22
MaxLargeFree == 15

LargeStrategies == {StrategyGreedy, StrategyBalanced, StrategyProportional}

PlanLargeInit ==
    /\ planPc = "call"
    /\ \E fs \in 1..MaxLargeFileSize, f1 \in 1..MaxLargeFree, f2 \in 1..MaxLargeFree,
          st \in LargeStrategies :
          planIn = [fileSize |-> fs,
                    driveSpaces |-> << [id |-> 1, free |-> f1, avail |-> TRUE],
                                       [id |-> 2, free |-> f2, avail |-> TRUE] >>,
                    strategy |-> st, manualSizes |-> <<>>]
    /\ planOut = PlanErr

(***************************************************************************)
(* Spec: upload sessions, the chunk and finalize handlers and the          *)
(* background pipeline processAndUploadFile, over the session store, the   *)
(* stored-files collection, the temp directory and the drives.             *)
(***************************************************************************)
MaxSessions == 1
MaxSessionDocs == 2
MaxInitiates == 2
MaxUsers == 2
MaxTotal == 2
MaxChunkLen == 1
MaxChunkRequests == 3
MaxInFlight == 2
MaxRuns == 2

\* obfuscator defaults; block size 256 and gap 4096 are scaled down to the
\* file sizes explored here
defaultBlockSize == 1
defaultOverheadPct == 8
defaultMinGap == 2

maxConcurrentPerUser == 1

SessionIds == 1..MaxSessionDocs
UserIds == 1..MaxUsers
InitSlots == 1..MaxInitiates
Slots == 1..MaxInFlight
RunIds == 1..MaxRuns
ChunkOffsets == 0..(MaxTotal - 1)
ChunkLens == 1..MaxChunkLen

\* an UploadSession document; status "none" stands for no document
NoSession ==
    [status |-> "none", user_id |-> 0, total_size |-> 0, uploaded_size |-> 0,
     processing_progress |-> 0, completed_at |-> FALSE, key_file_path |-> FALSE]

NewSession(userID, totalSize) ==
    [NoSession EXCEPT !.status = "uploading", !.user_id = userID, !.total_size = totalSize]

\* store: blind $set updates of one session document
UpdateSessionUploadProgress(ss, sid, uploadedSize) ==
    [ss EXCEPT ![sid].uploaded_size = uploadedSize]

UpdateSessionStatus(ss, sid, status, progress) ==
    [ss EXCEPT ![sid].status = status, ![sid].processing_progress = progress]

CompleteSession(ss, sid) ==
    [ss EXCEPT ![sid].status = "complete", ![sid].completed_at = TRUE]

UpdateSessionKeyFile(ss, sid) ==
    [ss EXCEPT ![sid].key_file_path = TRUE]

CountActiveUserSessions(userID) ==
    Cardinality({s \in SessionIds : /\ sessions[s].user_id = userID
                                    /\ sessions[s].status \in {"uploading", "processing"}})

\* GetSession succeeds when the document exists (one user, no expiry here)
GetSession(sid) == sessions[sid].status # "none" /\ ~expired[sid]

\* variant: an insert that stores nothing
CreateStoredFile_Mutant(files, fileID) == files

\* InsertOne of a StoredFile carrying fileID
CreateStoredFile(files, fileID) == [files EXCEPT ![fileID] = @ + 1]

IdleInit == [pc |-> "idle", user |-> 0, fileSize |-> 0, activeSessions |-> 0]
IdleReq == [pc |-> "idle", sid |-> 0, offset |-> 0, written |-> 0, snapshot |-> 0]
NoSeen == [found |-> FALSE, expired |-> FALSE, uploaded_size |-> 0, total_size |-> 0]
IdleFin == [pc |-> "idle", sid |-> 0, strategy |-> "", seen |-> NoSeen]

NewRun(sid, strategy, from) ==
    [pc |-> "start", sid |-> sid, strategy |-> strategy, from |-> from,
     processedSize |-> 0, driveSpaces |-> <<>>, plan |-> <<>>, i |-> 0,
     up |-> {}, del |-> {}, cause |-> "", created |-> FALSE, keyed |-> FALSE]

IdleRun == [NewRun(0, "", "") EXCEPT !.pc = "idle"]

\* a panic in any goroutine ends the server process
ProcessUp == \A r \in RunIds : runs[r].pc # "crashed"

FirstIdle(f, S) == f[S].pc = "idle" /\ \A t \in 1..(S - 1) : f[t].pc # "idle"

(***************************************************************************)
(* The manifest file of one drive (2xpfm.manifest) and the calls of        *)
(* AddFileToManifest that pipelines of this process make on it.            *)
(***************************************************************************)
MaxAdders == 2
MaxAdds == 3
MaxFiles == 2
manifestMaxRetries == 3

AdderIds == 1..MaxAdders
FileIds == 1..MaxFiles

IdleAdder == [pc |-> "idle", fileEntry |-> [file_id |-> 0, chunk_id |-> 0],
              manifest |-> <<>>, attempt |-> 0]

\* the loop over manifest.Files: append the chunk to the file's entry when
\* the file is listed, else append a new file entry
AddEntry(files, fileEntry) ==
    IF \E i \in 1..Len(files) : files[i].file_id = fileEntry.file_id
    THEN LET i == CHOOSE j \in 1..Len(files) :
                     /\ files[j].file_id = fileEntry.file_id
                     /\ \A t \in 1..(j - 1) : files[t].file_id # fileEntry.file_id
         IN [files EXCEPT ![i].chunks = Append(@, fileEntry.chunk_id)]
    ELSE Append(files, [file_id |-> fileEntry.file_id, chunks |-> <<fileEntry.chunk_id>>])

\* the manifest lists chunk fileEntry.chunk_id under file fileEntry.file_id
InManifest(files, fileEntry) ==
    \E i \in 1..Len(files) :
        /\ files[i].file_id = fileEntry.file_id
        /\ \E j \in 1..Len(files[i].chunks) : files[i].chunks[j] = fileEntry.chunk_id

ManifestInit ==
    /\ manifest = <<>>
    /\ adders = [a \in AdderIds |-> IdleAdder]
    /\ added = {}
    /\ addCount = 0

\* AddFileToManifest up to the end of the loop over manifest.Files:
\* GetOrCreateManifest downloads the manifest and the entry goes into the
\* caller's copy
AddFileToManifestRead(a, fileID) ==
    /\ adders[a].pc = "idle"
    /\ addCount < MaxAdds
    /\ addCount' = addCount + 1
    /\ LET fileEntry == [file_id |-> fileID, chunk_id |-> addCount + 1]
       IN adders' = [adders EXCEPT ![a] =
                        [pc |-> "update", fileEntry |-> fileEntry,
                         manifest |-> AddEntry(manifest, fileEntry), attempt |-> 1]]
    /\ UNCHANGED <<manifest, added>>
    /\ UNCHANGED <<codecVars, planVars, sessVars, auxVars>>

\* one attempt of the retry loop: UpdateManifest replaces the content of the
\* manifest file with the caller's copy, or fails; the third failure is the
\* error AddFileToManifest returns
AddFileToManifestUpdate(a) ==
    /\ adders[a].pc = "update"
    /\ \/ /\ manifest' = adders[a].manifest
          /\ added' = added \cup {adders[a].fileEntry}
          /\ adders' = [adders EXCEPT ![a] = IdleAdder]
       \/ /\ adders' = [adders EXCEPT ![a] =
                            IF adders[a].attempt < manifestMaxRetries
                            THEN [@ EXCEPT !.attempt = @ + 1]
                            ELSE IdleAdder]
          /\ UNCHANGED <<manifest, added>>
    /\ UNCHANGED addCount
    /\ UNCHANGED <<codecVars, planVars, sessVars, auxVars>>

ManifestNext ==
    \/ \E a \in AdderIds, fileID \in FileIds : AddFileToManifestRead(a, fileID)
    \/ \E a \in AdderIds : AddFileToManifestUpdate(a)

Init0 ==
    /\ sessions = [s \in SessionIds |-> NoSession]
    /\ tempLen = [s \in SessionIds |-> 0]
    /\ expired = [s \in SessionIds |-> FALSE]
    /\ received = [s \in SessionIds |-> {}]
    /\ chunkReqs = [c \in Slots |-> IdleReq]
    /\ finReqs = [f \in Slots |-> IdleFin]
    /\ runs = [r \in RunIds |-> IdleRun]
    /\ storedFiles = [s \in SessionIds |-> 0]
    /\ keyFiles = [s \in SessionIds |-> FALSE]
    /\ chunkCount = 0
    /\ initReqs = [q \in InitSlots |-> IdleInit]
    /\ ManifestInit

\* session documents in the store and initiate requests that may add one
DocsInUse == Cardinality({s \in SessionIds : sessions[s].status # "none"})
InitsInFlight == Cardinality({q \in InitSlots : initReqs[q].pc # "idle"})

\* InitiateUploadHandler into CreateUploadSession, up to the answer of
\* CountActiveUserSessions: the request holds the count it read
InitiateBegin(q, userID, fileSize) ==
    /\ ProcessUp
    /\ FirstIdle(initReqs, q)
    /\ fileSize > 0
    /\ initReqs' = [initReqs EXCEPT ![q] =
                       [pc |-> "counted", user |-> userID, fileSize |-> fileSize,
                        activeSessions |-> CountActiveUserSessions(userID)]]
    /\ UNCHANGED <<sessions, tempLen, received, chunkReqs, finReqs, runs, storedFiles, keyFiles, chunkCount>>
    /\ UNCHANGED <<expired, codecVars, planVars, maniVars, auxVars>>

\* CreateUploadSession from the cap comparison on: at the cap the request is
\* refused, otherwise the store inserts a new document or reports an error
InitiateCommit(q) ==
    /\ ProcessUp
    /\ initReqs[q].pc = "counted"
    /\ initReqs' = [initReqs EXCEPT ![q] = IdleInit]
    /\ IF initReqs[q].activeSessions >= maxConcurrentPerUser
       THEN UNCHANGED sessions
       ELSE \/ UNCHANGED sessions
            \/ \E s \in SessionIds :
                 /\ sessions[s].status = "none"
                 /\ \A t \in 1..(s - 1) : sessions[t].status # "none"
                 /\ sessions' = [sessions EXCEPT ![s] =
                                    NewSession(initReqs[q].user, initReqs[q].fileSize)]
    /\ UNCHANGED <<tempLen, received, chunkReqs, finReqs, runs, storedFiles, keyFiles, chunkCount>>
    /\ UNCHANGED <<expired, codecVars, planVars, maniVars, auxVars>>

\* an initiate request of the one user whose sessions Spec follows
InitiateUpload(q, fileSize) ==
    /\ DocsInUse + InitsInFlight < MaxSessions
    /\ InitiateBegin(q, 1, fileSize)

\* an initiate request of any user, possibly beside others in flight
InitiateUploadConcurrent(q, userID, fileSize) ==
    /\ DocsInUse + InitsInFlight < MaxSessionDocs
    /\ InitiateBegin(q, userID, fileSize)

\* UploadChunkHandler up to GetSession: the request holds the session as read
UploadChunkRead(c, s, offset, written) ==
    /\ ProcessUp
    /\ chunkCount < MaxChunkRequests
    /\ FirstIdle(chunkReqs, c)
    /\ GetSession(s)
    /\ chunkReqs' = [chunkReqs EXCEPT ![c] =
                        [pc |-> "write", sid |-> s, offset |-> offset, written |-> written,
                         snapshot |-> sessions[s].uploaded_size]]
    /\ chunkCount' = chunkCount + 1
    /\ UNCHANGED <<sessions, tempLen, received, finReqs, runs, storedFiles, keyFiles>>
    /\ UNCHANGED <<expired, initReqs, codecVars, planVars, maniVars>>

UploadChunkBegin(c, s, offset, written) ==
    /\ UploadChunkRead(c, s, offset, written)
    /\ UNCHANGED auxVars

\* variant: the temp file opened with O_TRUNC
WriteAt_Mutant(content, offset, highestByte) == offset..(highestByte - 1)

\* OpenFile(O_CREATE|O_WRONLY), Seek(offset), io.Copy: the positions of the
\* temp file that hold uploaded bytes
WriteAt(content, offset, highestByte) == content \cup (offset..(highestByte - 1))

\* UploadChunkHandler from the seek on: write the bytes, then store the new
\* uploaded_size when it is beyond the value read at GetSession
UploadChunkFinish(c) ==
    /\ ProcessUp
    /\ chunkReqs[c].pc = "write"
    /\ LET q == chunkReqs[c]
           highestByte == q.offset + q.written
       IN /\ tempLen' = [tempLen EXCEPT ![q.sid] = Max(@, highestByte)]
          /\ received' = [received EXCEPT ![q.sid] = WriteAt(@, q.offset, highestByte)]
          /\ sessions' = IF highestByte > q.snapshot
                         THEN UpdateSessionUploadProgress(sessions, q.sid, highestByte)
                         ELSE sessions
    /\ chunkReqs' = [chunkReqs EXCEPT ![c] = IdleReq]
    /\ UNCHANGED <<finReqs, runs, storedFiles, keyFiles, chunkCount>>
    /\ UNCHANGED <<expired, initReqs, codecVars, planVars, maniVars, auxVars>>

ActiveRuns == {r \in RunIds : runs[r].pc # "idle"}
ActiveFins == {f \in Slots : finReqs[f].pc # "idle"}

SessionStrategies == {StrategyGreedy, StrategyBalanced}

\* variant: a completeness test that accepts any session
UploadComplete_Mutant(session) == TRUE

\* FinalizeUploadHandler: session.UploadedSize != session.TotalSize rejects
UploadComplete(session) == session.uploaded_size = session.total_size

\* the clock passes the session's ExpiresAt
SessionExpires(s) ==
    /\ sessions[s].status # "none"
    /\ ~expired[s]
    /\ expired' = [expired EXCEPT ![s] = TRUE]
    /\ UNCHANGED <<sessions, tempLen, received, chunkReqs, finReqs, runs, storedFiles, keyFiles, chunkCount>>
    /\ UNCHANGED <<initReqs, codecVars, planVars, maniVars, auxVars>>

\* FinalizeUploadHandler up to the completeness check: GetSession, then the
\* size comparison; seen is what GetSession returned to this request
FinalizeBegin(f, s, strategy) ==
    /\ ProcessUp
    /\ FirstIdle(finReqs, f)
    /\ Cardinality(ActiveRuns) + Cardinality(ActiveFins) < MaxRuns
    /\ finReqs' = [finReqs EXCEPT ![f] =
           [pc |-> IF GetSession(s) /\ UploadComplete(sessions[s]) THEN "checked" ELSE "rejected",
            sid |-> IF GetSession(s) /\ UploadComplete(sessions[s]) THEN s ELSE 0,
            strategy |-> IF GetSession(s) /\ UploadComplete(sessions[s]) THEN strategy ELSE "",
            seen |-> IF sessions[s].status # "none"
                     THEN [found |-> TRUE, expired |-> expired[s],
                           uploaded_size |-> sessions[s].uploaded_size,
                           total_size |-> sessions[s].total_size]
                     ELSE NoSeen]]
    /\ UNCHANGED <<sessions, tempLen, received, chunkReqs, runs, storedFiles, keyFiles, chunkCount>>
    /\ UNCHANGED <<expired, initReqs, codecVars, planVars, maniVars, auxVars>>

\* FinalizeUploadHandler answering 400: respondError and return
FinalizeReject(f) ==
    /\ ProcessUp
    /\ finReqs[f].pc = "rejected"
    /\ finReqs' = [finReqs EXCEPT ![f] = IdleFin]
    /\ UNCHANGED <<sessions, tempLen, received, chunkReqs, runs, storedFiles, keyFiles, chunkCount>>
    /\ UNCHANGED <<expired, initReqs, codecVars, planVars, maniVars, auxVars>>

\* FinalizeUploadHandler from UpdateSessionStatus on: a failed status write
\* answers 500, otherwise the pipeline goroutine is started
FinalizeCommit(f) ==
    /\ ProcessUp
    /\ finReqs[f].pc = "checked"
    /\ finReqs' = [finReqs EXCEPT ![f] = IdleFin]
    /\ \/ UNCHANGED <<sessions, runs>>
       \/ \E r \in RunIds :
            /\ FirstIdle(runs, r)
            /\ sessions' = UpdateSessionStatus(sessions, finReqs[f].sid, "processing", 0)
            /\ runs' = [runs EXCEPT ![r] =
                           NewRun(finReqs[f].sid, finReqs[f].strategy,
                                  sessions[finReqs[f].sid].status)]
    /\ UNCHANGED <<tempLen, received, chunkReqs, storedFiles, keyFiles, chunkCount>>
    /\ UNCHANGED <<expired, initReqs, codecVars, planVars, maniVars, auxVars>>

\* what GetUserDriveSpaces reports during a run: two drives with room for
\* the processed file between them, or one drive that is too small
UserDriveLayouts ==
    {<<[id |-> 1, free |-> MaxTotal, avail |-> TRUE], [id |-> 2, free |-> MaxTotal, avail |-> TRUE]>>,
     <<[id |-> 1, free |-> 1, avail |-> TRUE]>>}

\* the temp file as the pipeline finds it: tempLen bytes
TempData(n) == [j \in 1..n |-> j]

\* progress written at the head of upload iteration i (0-based) of k
UploadProgress(i, k) == 70 + (20 * i) \div k

\* variant: a delete loop that stops one chunk early
RollbackTargets_Mutant(i) == 1..(i - 2)

\* for j := 0; j < i; j++: the chunks stored before 1-based iteration i
RollbackTargets(i) == 1..(i - 1)

\* UpdateSessionStatus(failed, progress, message); return
\* variant: an error branch that returns without writing the failed status
RunFails_Mutant(r, progress, cause, run) ==
    /\ sessions' = UpdateSessionStatus(sessions, runs[r].sid, "processing", progress)
    /\ runs' = [runs EXCEPT ![r] = [run EXCEPT !.pc = "failed", !.cause = cause]]

RunFails(r, progress, cause, run) ==
    /\ sessions' = UpdateSessionStatus(sessions, runs[r].sid, "failed", progress)
    /\ runs' = [runs EXCEPT ![r] = [run EXCEPT !.pc = "failed", !.cause = cause]]

\* a step that succeeded: the next UpdateSessionStatus(processing, progress)
RunAdvances(r, progress, run) ==
    /\ sessions' = UpdateSessionStatus(sessions, runs[r].sid, "processing", progress)
    /\ runs' = [runs EXCEPT ![r] = run]

\* step 1: UpdateSessionStatus(processing, 10)
RunStart(r) ==
    /\ ProcessUp
    /\ runs[r].pc = "start"
    /\ RunAdvances(r, 10, [runs[r] EXCEPT !.pc = "obfuscate"])
    /\ UNCHANGED <<tempLen, received, chunkReqs, finReqs, storedFiles, keyFiles, chunkCount>>
    /\ UNCHANGED <<expired, initReqs, codecVars, planVars, maniVars, auxVars>>

\* step 1: seed and ObfuscateFile of the temp file, then status 20
RunObfuscate(r) ==
    /\ ProcessUp
    /\ runs[r].pc = "obfuscate"
    /\ \/ RunFails(r, 10, "obfuscate", runs[r])
       \/ LET n == tempLen[runs[r].sid]
          IN \E keys \in [1..NumInjections(n, defaultOverheadPct, defaultBlockSize) -> KeyWords] :
               LET res == ObfuscateFile(TempData(n), SeedSize, keys, defaultBlockSize,
                                        defaultOverheadPct, defaultMinGap)
               IN IF res.status = "panic"
                  THEN /\ runs' = [runs EXCEPT ![r].pc = "crashed"]
                       /\ UNCHANGED sessions
                  ELSE RunAdvances(r, 20, [runs[r] EXCEPT !.pc = "spaces",
                                                          !.processedSize = res.processedSize])
    /\ UNCHANGED <<tempLen, received, chunkReqs, finReqs, storedFiles, keyFiles, chunkCount>>
    /\ UNCHANGED <<expired, initReqs, codecVars, planVars, maniVars, auxVars>>

\* step 2: GetUserDriveSpaces, then status 30
RunSpaces(r) ==
    /\ ProcessUp
    /\ runs[r].pc = "spaces"
    /\ \/ RunFails(r, 20, "spaces", runs[r])
       \/ \E ds \in UserDriveLayouts :
            RunAdvances(r, 30, [runs[r] EXCEPT !.pc = "plan", !.driveSpaces = ds])
    /\ UNCHANGED <<tempLen, received, chunkReqs, finReqs, storedFiles, keyFiles, chunkCount>>
    /\ UNCHANGED <<expired, initReqs, codecVars, planVars, maniVars, auxVars>>

\* step 3: CalculateChunkPlan, then status 50
RunPlan(r) ==
    /\ ProcessUp
    /\ runs[r].pc = "plan"
    /\ LET p == CalculateChunkPlan(runs[r].processedSize, runs[r].driveSpaces,
                                   runs[r].strategy, <<>>)
       IN IF p.ok
          THEN RunAdvances(r, 50, [runs[r] EXCEPT !.pc = "split", !.plan = p.plan])
          ELSE RunFails(r, 30, "plan", runs[r])
    /\ UNCHANGED <<tempLen, received, chunkReqs, finReqs, storedFiles, keyFiles, chunkCount>>
    /\ UNCHANGED <<expired, initReqs, codecVars, planVars, maniVars, auxVars>>

\* step 4: splitFileWithCustomNames, then status 70
RunSplit(r) ==
    /\ ProcessUp
    /\ runs[r].pc = "split"
    /\ \/ RunFails(r, 50, "split", runs[r])
       \/ RunAdvances(r, 70, [runs[r] EXCEPT !.pc = "progress", !.i = 1])
    /\ UNCHANGED <<tempLen, received, chunkReqs, finReqs, storedFiles, keyFiles, chunkCount>>
    /\ UNCHANGED <<expired, initReqs, codecVars, planVars, maniVars, auxVars>>

\* step 5, head of an iteration: the progress write
RunProgress(r) ==
    /\ ProcessUp
    /\ runs[r].pc = "progress"
    /\ RunAdvances(r, UploadProgress(runs[r].i - 1, Len(runs[r].plan)),
                   [runs[r] EXCEPT !.pc = "upload"])
    /\ UNCHANGED <<tempLen, received, chunkReqs, finReqs, storedFiles, keyFiles, chunkCount>>
    /\ UNCHANGED <<expired, initReqs, codecVars, planVars, maniVars, auxVars>>

\* step 5, rest of an iteration: UploadChunkToDrive, checksum, account,
\* manifest, append to storedChunks, AddFileToManifest (its error is logged)
RunUploadChunk(r) ==
    /\ ProcessUp
    /\ runs[r].pc = "upload"
    /\ LET i == runs[r].i
           k == Len(runs[r].plan)
           progress == UploadProgress(i - 1, k)
           uploaded == [runs[r] EXCEPT !.up = @ \cup {i}]
       IN \/ RunFails(r, progress, "upload",
                      [runs[r] EXCEPT !.del = @ \cup RollbackTargets(i)])
          \/ \E cause \in {"checksum", "account", "manifest"} :
                RunFails(r, progress, cause, uploaded)
          \/ /\ runs' = [runs EXCEPT ![r] =
                            IF i < k THEN [uploaded EXCEPT !.pc = "progress", !.i = i + 1]
                                     ELSE [uploaded EXCEPT !.pc = "save"]]
             /\ UNCHANGED sessions
    /\ UNCHANGED <<tempLen, received, chunkReqs, finReqs, storedFiles, keyFiles, chunkCount>>
    /\ UNCHANGED <<expired, initReqs, codecVars, planVars, maniVars, auxVars>>

\* step 6: UpdateSessionStatus(processing, 93)
RunSave(r) ==
    /\ ProcessUp
    /\ runs[r].pc = "save"
    /\ RunAdvances(r, 93, [runs[r] EXCEPT !.pc = "store"])
    /\ UNCHANGED <<tempLen, received, chunkReqs, finReqs, storedFiles, keyFiles, chunkCount>>
    /\ UNCHANGED <<expired, initReqs, codecVars, planVars, maniVars, auxVars>>

\* step 6: CreateStoredFile, then status 95
RunCreateStoredFile(r) ==
    /\ ProcessUp
    /\ runs[r].pc = "store"
    /\ \/ /\ RunFails(r, 93, "store", runs[r])
          /\ UNCHANGED storedFiles
       \/ /\ storedFiles' = CreateStoredFile(storedFiles, runs[r].sid)
          /\ RunAdvances(r, 95, [runs[r] EXCEPT !.pc = "key", !.created = TRUE])
    /\ UNCHANGED <<tempLen, received, chunkReqs, finReqs, keyFiles, chunkCount>>
    /\ UNCHANGED <<expired, initReqs, codecVars, planVars, maniVars, auxVars>>

\* step 7: generateKeyFileWithFileID, then UpdateSessionKeyFile
RunKeyFile(r) ==
    /\ ProcessUp
    /\ runs[r].pc = "key"
    /\ \/ /\ RunFails(r, 95, "key", runs[r])
          /\ UNCHANGED keyFiles
       \/ /\ keyFiles' = [keyFiles EXCEPT ![runs[r].sid] = TRUE]
          /\ sessions' = UpdateSessionKeyFile(sessions, runs[r].sid)
          /\ runs' = [runs EXCEPT ![r] = [@ EXCEPT !.pc = "complete", !.keyed = TRUE]]
    /\ UNCHANGED <<tempLen, received, chunkReqs, finReqs, storedFiles, chunkCount>>
    /\ UNCHANGED <<expired, initReqs, codecVars, planVars, maniVars, auxVars>>

\* step 8: CompleteSession
RunComplete(r) ==
    /\ ProcessUp
    /\ runs[r].pc = "complete"
    /\ sessions' = CompleteSession(sessions, runs[r].sid)
    /\ runs' = [runs EXCEPT ![r].pc = "finish"]
    /\ UNCHANGED <<tempLen, received, chunkReqs, finReqs, storedFiles, keyFiles, chunkCount>>
    /\ UNCHANGED <<expired, initReqs, codecVars, planVars, maniVars, auxVars>>

\* step 8: UpdateSessionStatus(complete, 100)
RunFinish(r) ==
    /\ ProcessUp
    /\ runs[r].pc = "finish"
    /\ sessions' = UpdateSessionStatus(sessions, runs[r].sid, "complete", 100)
    /\ runs' = [runs EXCEPT ![r].pc = "done"]
    /\ UNCHANGED <<tempLen, received, chunkReqs, finReqs, storedFiles, keyFiles, chunkCount>>
    /\ UNCHANGED <<expired, initReqs, codecVars, planVars, maniVars, auxVars>>

Next ==
    \/ \E q \in InitSlots, fileSize \in 0..MaxTotal : InitiateUpload(q, fileSize)
    \/ \E q \in InitSlots : InitiateCommit(q)
    \/ \E c \in Slots, s \in SessionIds, offset \in ChunkOffsets, written \in ChunkLens :
          UploadChunkBegin(c, s, offset, written)
    \/ \E c \in Slots : UploadChunkFinish(c)
    \/ \E f \in Slots, s \in SessionIds, strategy \in SessionStrategies :
          FinalizeBegin(f, s, strategy)
    \/ \E f \in Slots : FinalizeReject(f)
    \/ \E f \in Slots : FinalizeCommit(f)
    \/ \E s \in SessionIds : SessionExpires(s)
    \/ \E r \in RunIds : RunStart(r)
    \/ \E r \in RunIds : RunObfuscate(r)
    \/ \E r \in RunIds : RunSpaces(r)
    \/ \E r \in RunIds : RunPlan(r)
    \/ \E r \in RunIds : RunSplit(r)
    \/ \E r \in RunIds : RunProgress(r)
    \/ \E r \in RunIds : RunUploadChunk(r)
    \/ \E r \in RunIds : RunSave(r)
    \/ \E r \in RunIds : RunCreateStoredFile(r)
    \/ \E r \in RunIds : RunKeyFile(r)
    \/ \E r \in RunIds : RunComplete(r)
    \/ \E r \in RunIds : RunFinish(r)

(***************************************************************************)
(* SpecSplit: splitFileWithCustomNames cuts a file into chunk files by a   *)
(* plan, ReconstructFile joins chunk files in the order given.  The chunk  *)
(* directory is a function from chunk id (the file name) to content.       *)
(***************************************************************************)
MaxSplitLen == 4
MaxSplitChunks == 3
MaxChunkId == 4

\* variant: a copy that does not seek to the chunk's start offset
ChunkBytes_Mutant(data, chunk) == SubSeq(data, 1, chunk.size)

\* inFile.Seek(chunk.StartOffset, 0); io.CopyN(chunkFile, inFile, chunk.Size)
ChunkBytes(data, chunk) ==
    SubSeq(data, chunk.start_offset + 1, chunk.start_offset + chunk.size)

\* os.Create(chunkPath) and the copy: the file named by the chunk id is
\* created or truncated and holds the bytes copied
WriteChunkFile(files, chunkID, bytes) ==
    [id \in DOMAIN files \cup {chunkID} |-> IF id = chunkID THEN bytes ELSE files[id]]

\* the loop over plan; a copy that runs past the end of the input is an
\* error, and the chunk files written so far are removed
RECURSIVE SplitLoop(_, _, _, _, _)
SplitLoop(data, plan, i, files, paths) ==
    IF i > Len(plan) THEN [status |-> "ok", files |-> files, paths |-> paths]
    ELSE IF plan[i].start_offset + plan[i].size > Len(data)
         THEN [status |-> "error",
               files |-> [id \in DOMAIN files \ {paths[j] : j \in 1..Len(paths)} |-> files[id]],
               paths |-> <<>>]
         ELSE SplitLoop(data, plan, i + 1,
                        WriteChunkFile(files, plan[i].chunk_id, ChunkBytes(data, plan[i])),
                        Append(paths, plan[i].chunk_id))

splitFileWithCustomNames(data, plan) == SplitLoop(data, plan, 1, <<>>, <<>>)

\* io.Copy of every chunk file, in the order of chunkPaths
RECURSIVE ReconstructFile(_, _)
ReconstructFile(paths, files) ==
    IF paths = <<>> THEN <<>>
    ELSE files[Head(paths)] \o ReconstructFile(Tail(paths), files)

\* the plans of fileSize bytes that are contiguous partitions of
\* [0, fileSize) with chunk ids ascending
RECURSIVE OffsetOf(_, _)
OffsetOf(sizes, i) == IF i <= 1 THEN 0 ELSE OffsetOf(sizes, i - 1) + sizes[i - 1]

PlanOf(sizes, ids) ==
    [i \in 1..Len(sizes) |->
        [chunk_id |-> ids[i], drive_account_id |-> 1, size |-> sizes[i],
         start_offset |-> OffsetOf(sizes, i), end_offset |-> OffsetOf(sizes, i) + sizes[i]]]

LegalPlans(fileSize) ==
    UNION {{PlanOf(sizes, ids) :
              ids \in {f \in [1..Len(sizes) -> 1..MaxChunkId] :
                         \A i \in 1..(Len(f) - 1) : f[i] < f[i + 1]}} :
           sizes \in {sz \in SeqUpTo(1..fileSize, MaxSplitChunks) : SumSeq(sz) = fileSize}}

SplitIdle ==
    /\ splitPc = "idle"
    /\ splitIn = [data |-> <<>>, plan |-> <<>>]
    /\ chunkFiles = <<>>
    /\ chunkPaths = <<>>
    /\ joined = <<>>


SplitInit ==
    /\ splitPc = "start"
    /\ \E n \in 1..MaxSplitLen :
         \E plan \in LegalPlans(n) :
            splitIn = [data |-> [i \in 1..n |-> i], plan |-> plan]
    /\ chunkFiles = <<>>
    /\ chunkPaths = <<>>
    /\ joined = <<>>

SplitStep ==
    /\ splitPc = "start"
    /\ LET r == splitFileWithCustomNames(splitIn.data, splitIn.plan)
       IN /\ splitPc' = IF r.status = "ok" THEN "split" ELSE "error"
          /\ chunkFiles' = r.files
          /\ chunkPaths' = r.paths
    /\ UNCHANGED <<splitIn, joined>>
    /\ UNCHANGED <<codecVars, planVars, sessVars, maniVars, roundTrip, reqVars>>

JoinStep ==
    /\ splitPc = "split"
    /\ joined' = ReconstructFile(chunkPaths, chunkFiles)
    /\ splitPc' = "joined"
    /\ UNCHANGED <<splitIn, chunkFiles, chunkPaths>>
    /\ UNCHANGED <<codecVars, planVars, sessVars, maniVars, roundTrip, reqVars>>

SplitNext == SplitStep \/ JoinStep

(***************************************************************************)
(* SpecRoundTrip: one file through processAndUploadFile with every store   *)
(* and drive call succeeding, then through processDownload with the key    *)
(* file the upload wrote.  A drive file is named by its position in        *)
(* StoredFile.chunks; a chunk file in a directory by its chunk id.         *)
(***************************************************************************)
MaxRtLen == 4
MaxRtFree == 8

RtDriveLayouts ==
    {<<[id |-> 1, free |-> f1, avail |-> TRUE], [id |-> 2, free |-> f2, avail |-> TRUE]>> :
        f1 \in {0, 3, MaxRtFree}, f2 \in {0, 3, MaxRtFree}}

RtStrategies == {StrategyGreedy, StrategyBalanced, StrategyProportional}

RoundTripIdle ==
    roundTrip = [pc |-> "idle"]


\* the session at finalize: a temp file holding the total_size bytes the
\* client sent, OBFUSCATION_BLOCK_SIZE, and the drives of the user
RoundTripInit ==
    \E n \in 1..MaxRtLen, B \in 1..MaxBlock, driveSpaces \in RtDriveLayouts,
       strategy \in RtStrategies :
       \E keys \in [1..NumInjections(n, defaultOverheadPct, B) -> KeyWords] :
          roundTrip = [pc |-> "obfuscate", data |-> TempData(n), total_size |-> n,
                       keys |-> keys, B |-> B, driveSpaces |-> driveSpaces,
                       strategy |-> strategy]

\* step 1 of processAndUploadFile: ObfuscateFile of the temp file
RtObfuscate ==
    /\ roundTrip.pc = "obfuscate"
    /\ LET res == ObfuscateFile(roundTrip.data, SeedSize, roundTrip.keys, roundTrip.B,
                                defaultOverheadPct, defaultMinGap)
       IN roundTrip' =
             IF res.status = "panic" THEN [roundTrip EXCEPT !.pc = "crashed"]
             ELSE [pc |-> "plan", obf |-> res.out, processedSize |-> res.processedSize]
                  @@ roundTrip
    /\ UNCHANGED <<codecVars, planVars, sessVars, maniVars, splitVars, reqVars>>

\* steps 2 and 3: the plan for the processed size over the user's drives
RtPlan ==
    /\ roundTrip.pc = "plan"
    /\ LET res == CalculateChunkPlan(roundTrip.processedSize, roundTrip.driveSpaces,
                                     roundTrip.strategy, <<>>)
       IN roundTrip' =
             IF res.ok THEN [pc |-> "split", plan |-> res.plan] @@ roundTrip
             ELSE [roundTrip EXCEPT !.pc = "failed"]
    /\ UNCHANGED <<codecVars, planVars, sessVars, maniVars, splitVars, reqVars>>

\* step 4: splitFileWithCustomNames of the obfuscated file
RtSplit ==
    /\ roundTrip.pc = "split"
    /\ LET res == splitFileWithCustomNames(roundTrip.obf, roundTrip.plan)
       IN roundTrip' =
             IF res.status = "ok"
             THEN [pc |-> "upload", chunkFiles |-> res.files, chunkPaths |-> res.paths]
                  @@ roundTrip
             ELSE [roundTrip EXCEPT !.pc = "failed"]
    /\ UNCHANGED <<codecVars, planVars, sessVars, maniVars, splitVars, reqVars>>

\* steps 5 to 7: every chunk file goes to its drive, StoredFile.chunks keeps
\* one StoredChunk per chunk in upload order, and the key file takes the
\* session's total_size, the processed size and the obfuscation metadata
RtUpload ==
    /\ roundTrip.pc = "upload"
    /\ LET k == Len(roundTrip.chunkPaths)
           driveFiles == [i \in 1..k |-> roundTrip.chunkFiles[roundTrip.chunkPaths[i]]]
           storedChunks == [i \in 1..k |->
                               [chunk_id |-> roundTrip.plan[i].chunk_id,
                                drive_account_id |-> roundTrip.plan[i].drive_account_id,
                                drive_file_id |-> i,
                                filename |-> roundTrip.plan[i].chunk_id,
                                size |-> roundTrip.plan[i].size]]
           key == [original_size |-> roundTrip.total_size,
                   processed_size |-> roundTrip.processedSize,
                   seedLen |-> SeedSize, keys |-> roundTrip.keys,
                   obfuscation |-> [B |-> roundTrip.B, g |-> defaultMinGap]]
       IN roundTrip' = [pc |-> "download", driveFiles |-> driveFiles,
                        storedChunks |-> storedChunks, key |-> key] @@ roundTrip
    /\ UNCHANGED <<codecVars, planVars, sessVars, maniVars, splitVars, reqVars>>

\* the chunk directory after DownloadChunksParallel: one file per entry of
\* StoredFile.chunks, named by chunk.Filename; chunkPaths keeps their order
RECURSIVE DownloadedFiles(_, _, _, _)
DownloadedFiles(storedChunks, driveFiles, i, files) ==
    IF i > Len(storedChunks) THEN files
    ELSE DownloadedFiles(storedChunks, driveFiles, i + 1,
                         WriteChunkFile(files, storedChunks[i].filename,
                                        driveFiles[storedChunks[i].drive_file_id]))

\* steps 1 to 3 of processDownload: download and ReconstructFile
RtDownload ==
    /\ roundTrip.pc = "download"
    /\ LET files == DownloadedFiles(roundTrip.storedChunks, roundTrip.driveFiles, 1, <<>>)
           paths == [i \in 1..Len(roundTrip.storedChunks) |-> roundTrip.storedChunks[i].filename]
       IN roundTrip' = [pc |-> "deobfuscate", joined |-> ReconstructFile(paths, files)]
                       @@ roundTrip
    /\ UNCHANGED <<codecVars, planVars, sessVars, maniVars, splitVars, reqVars>>

\* step 4 of processDownload: DeobfuscateFile with key.Obfuscation and
\* key.OriginalSize
RtDeobfuscate ==
    /\ roundTrip.pc = "deobfuscate"
    /\ LET res == DeobfuscateFile(roundTrip.joined, roundTrip.key.seedLen, roundTrip.key.keys,
                                  roundTrip.key.obfuscation, roundTrip.key.original_size)
       IN roundTrip' = [pc |-> IF res.status = "ok" THEN "done"
                               ELSE IF res.status = "panic" THEN "crashed" ELSE "failed",
                        out |-> res.out] @@ roundTrip
    /\ UNCHANGED <<codecVars, planVars, sessVars, maniVars, splitVars, reqVars>>

RoundTripNext ==
    \/ RtObfuscate
    \/ RtPlan
    \/ RtSplit
    \/ RtUpload
    \/ RtDownload
    \/ RtDeobfuscate

(***************************************************************************)
(* InitiateDownloadHandler (POST /api/files/download/initiate): the        *)
(* StoredFile documents, the drive accounts linked by each user, the       *)
(* DownloadSession documents and the processDownload goroutines.  Strings   *)
(* are small numbers, 0 standing for the empty string and the zero id.      *)
(***************************************************************************)
MaxDlFiles == 3
MaxSeed == 2
MaxDownloadRequests == 2

DlFileIds == 1..MaxDlFiles
KeyFileInputs == [file_id : 0..MaxDlFiles, seed : 0..MaxSeed]

NoStoredFile == [status |-> "none", user_id |-> 0, seed |-> 0, chunks |-> <<>>]

\* file 1 of user 1: a chunk on a linked drive, a chunk whose drive_id was
\* not recorded, a chunk whose drive was linked again under a new account;
\* file 2 of user 2; no file 3
InitialFiles ==
    [f \in DlFileIds |->
        CASE f = 1 -> [status |-> "active", user_id |-> 1, seed |-> 1,
                       chunks |-> << [chunk_id |-> 1, drive_id |-> 1, drive_account_id |-> 1],
                                     [chunk_id |-> 2, drive_id |-> 0, drive_account_id |-> 2],
                                     [chunk_id |-> 3, drive_id |-> 3, drive_account_id |-> 5] >>]
          [] f = 2 -> [status |-> "active", user_id |-> 2, seed |-> 2,
                       chunks |-> << [chunk_id |-> 1, drive_id |-> 4, drive_account_id |-> 6] >>]
          [] OTHER -> NoStoredFile]

InitialAccounts ==
    [u \in UserIds |->
        CASE u = 1 -> {[id |-> 1, drive_id |-> 1], [id |-> 2, drive_id |-> 2],
                       [id |-> 4, drive_id |-> 3]}
          [] u = 2 -> {[id |-> 6, drive_id |-> 4]}
          [] OTHER -> {}]

IdleDownload == [pc |-> "idle", user |-> 0, key |-> [file_id |-> 0, seed |-> 0],
                 storedFile |-> NoStoredFile]
NoReply == [n |-> 0, user |-> 0, key |-> [file_id |-> 0, seed |-> 0], code |-> 0, error |-> ""]

DownloadIdle ==
    /\ dlFiles = InitialFiles
    /\ dlAccounts = InitialAccounts
    /\ dlSessions = 0
    /\ dlJobs = 0
    /\ dlReq = IdleDownload
    /\ dlReply = NoReply

\* FindOne({user_id, file_id}): the document, or nil when there is none
GetStoredFileByFileID(userID, fileID) ==
    IF fileID \in DlFileIds /\ dlFiles[fileID].status # "none"
                            /\ dlFiles[fileID].user_id = userID
    THEN dlFiles[fileID] ELSE NoStoredFile

\* the answer of the checks made on the key file and the StoredFile; code 0
\* when all of them pass
VerifyKeyFile(key, storedFile) ==
    CASE key.file_id = 0 \/ key.seed = 0 ->
            [code |-> 400, error |-> "invalid key file: missing file_id or obfuscation seed"]
      [] storedFile.status = "none" ->
            [code |-> 404, error |-> "file not found"]
      [] storedFile.seed # key.seed ->
            [code |-> 401, error |-> "invalid key file: obfuscation seed mismatch"]
      [] storedFile.status = "incomplete" ->
            [code |-> 400, error |-> "file incomplete: some drives may be unlinked"]
      [] storedFile.status = "deleted" ->
            [code |-> 404, error |-> "file has been deleted"]
      [] OTHER -> [code |-> 0, error |-> ""]

\* variant: a chunk check that accepts every chunk
ChunkAvailable_Mutant(chunk, userAccounts) == TRUE

\* (chunk.DriveID != "" && driveMap[chunk.DriveID]) ||
\* (!chunk.DriveAccountID.IsZero() && accountMap[chunk.DriveAccountID])
ChunkAvailable(chunk, userAccounts) ==
    \/ /\ chunk.drive_id # 0
       /\ \E acc \in userAccounts : acc.drive_id # 0 /\ acc.drive_id = chunk.drive_id
    \/ /\ chunk.drive_account_id # 0
       /\ \E acc \in userAccounts : acc.id = chunk.drive_account_id

DownloadReply(userID, key, code, error) ==
    [n |-> dlReply.n + 1, user |-> userID, key |-> key, code |-> code, error |-> error]

\* the handler up to the status checks of the StoredFile it read
DownloadBegin(userID, key, storeFails) ==
    /\ dlReq.pc = "idle"
    /\ dlReply.n < MaxDownloadRequests
    /\ LET storedFile == GetStoredFileByFileID(userID, key.file_id)
           answer == VerifyKeyFile(key, storedFile)
       IN IF storeFails /\ key.file_id # 0 /\ key.seed # 0
          THEN /\ dlReply' = DownloadReply(userID, key, 500, "failed to retrieve file info")
               /\ UNCHANGED dlReq
          ELSE IF answer.code # 0
          THEN /\ dlReply' = DownloadReply(userID, key, answer.code, answer.error)
               /\ UNCHANGED dlReq
          ELSE /\ dlReq' = [pc |-> "verified", user |-> userID, key |-> key,
                            storedFile |-> storedFile]
               /\ UNCHANGED dlReply
    /\ UNCHANGED <<dlFiles, dlAccounts, dlSessions, dlJobs>>
    /\ UNCHANGED <<codecVars, planVars, sessVars, maniVars, splitVars, roundTrip>>
    /\ UNCHANGED <<cleanVars, authVars, sessReply, concVars>>

\* ListUserDriveAccounts, the chunk loop, CreateDownloadSession and
\* go processDownload
DownloadCommit(storeFails) ==
    /\ dlReq.pc = "verified"
    /\ LET userAccounts == dlAccounts[dlReq.user]
           chunks == dlReq.storedFile.chunks
       IN IF \E i \in 1..Len(chunks) : ~ChunkAvailable(chunks[i], userAccounts)
          THEN /\ dlReply' = DownloadReply(dlReq.user, dlReq.key, 400, "drive not available for chunk")
               /\ UNCHANGED <<dlSessions, dlJobs>>
          ELSE IF storeFails
          THEN /\ dlReply' = DownloadReply(dlReq.user, dlReq.key, 500, "failed to create download session")
               /\ UNCHANGED <<dlSessions, dlJobs>>
          ELSE /\ dlSessions' = dlSessions + 1
               /\ dlJobs' = dlJobs + 1
               /\ dlReply' = DownloadReply(dlReq.user, dlReq.key, 200, "")
    /\ dlReq' = IdleDownload
    /\ UNCHANGED <<dlFiles, dlAccounts>>
    /\ UNCHANGED <<codecVars, planVars, sessVars, maniVars, splitVars, roundTrip>>
    /\ UNCHANGED <<cleanVars, authVars, sessReply, concVars>>

\* $set status deleted on the document of this user with this file_id
DeleteStoredFile(userID, fileID) ==
    [f \in DlFileIds |->
        IF f = fileID /\ dlFiles[f].status # "none" /\ dlFiles[f].user_id = userID
        THEN [dlFiles[f] EXCEPT !.status = "deleted"] ELSE dlFiles[f]]

\* DELETE /api/files/:file_id of a file the user owns
DeleteFile(userID, fileID) ==
    /\ GetStoredFileByFileID(userID, fileID).status # "none"
    /\ dlFiles[fileID].status # "deleted"
    /\ dlFiles' = DeleteStoredFile(userID, fileID)
    /\ UNCHANGED <<dlAccounts, dlSessions, dlJobs, dlReq, dlReply>>
    /\ UNCHANGED <<codecVars, planVars, sessVars, maniVars, splitVars, roundTrip>>
    /\ UNCHANGED <<cleanVars, authVars, sessReply, concVars>>

\* UpdateMany({user_id, chunks.drive_id, status active}, $set incomplete)
MarkFilesIncompleteForDrive(userID, driveID) ==
    [f \in DlFileIds |->
        IF /\ dlFiles[f].user_id = userID
           /\ dlFiles[f].status = "active"
           /\ \E i \in 1..Len(dlFiles[f].chunks) : dlFiles[f].chunks[i].drive_id = driveID
        THEN [dlFiles[f] EXCEPT !.status = "incomplete"] ELSE dlFiles[f]]

\* the user unlinks a drive account: the account leaves the user's list and
\* the files with a chunk on its drive become incomplete
UnlinkDrive(userID, acc) ==
    /\ acc \in dlAccounts[userID]
    /\ dlAccounts' = [dlAccounts EXCEPT ![userID] = @ \ {acc}]
    /\ dlFiles' = MarkFilesIncompleteForDrive(userID, acc.drive_id)
    /\ UNCHANGED <<dlSessions, dlJobs, dlReq, dlReply>>
    /\ UNCHANGED <<codecVars, planVars, sessVars, maniVars, splitVars, roundTrip>>
    /\ UNCHANGED <<cleanVars, authVars, sessReply, concVars>>

AllAccounts == UNION {InitialAccounts[u] : u \in UserIds}

DownloadNext ==
    \/ \E u \in UserIds, key \in KeyFileInputs, storeFails \in BOOLEAN : DownloadBegin(u, key, storeFails)
    \/ \E storeFails \in BOOLEAN : DownloadCommit(storeFails)
    \/ \E u \in UserIds, f \in DlFileIds : DeleteFile(u, f)
    \/ \E u \in UserIds, acc \in AllAccounts : UnlinkDrive(u, acc)

(***************************************************************************)
(* ScheduleCleanup: the goroutine that processAndUploadFile defers.  It     *)
(* sleeps TEMP_FILE_CLEANUP, reads the session and removes the file at its  *)
(* TempFilePath.                                                           *)
(***************************************************************************)
CleanupIdle ==
    /\ cleaned = {}
    /\ tempRemoved = [s \in SessionIds |-> FALSE]

\* the timer of the pipeline r that returned fires; tempRemoved records the
\* os.Remove of the temp file, whose length tempLen keeps for the record
CleanupFires(r) ==
    /\ ProcessUp
    /\ runs[r].pc \in {"done", "failed"}
    /\ r \notin cleaned
    /\ cleaned' = cleaned \cup {r}
    /\ tempRemoved' = IF sessions[runs[r].sid].status # "none"
                      THEN [tempRemoved EXCEPT ![runs[r].sid] = TRUE]
                      ELSE tempRemoved
    /\ UNCHANGED <<codecVars, planVars, sessVars, maniVars, splitVars, roundTrip>>
    /\ UNCHANGED <<dlVars, authVars, sessReply, concVars>>

(***************************************************************************)
(* AuthMiddleware around the handlers of the protected /api routes.  An    *)
(* Authorization header is absent ("") or a scheme word, possibly a token  *)
(* word and possibly more text after it; a token is a string that is no    *)
(* JWT or a JWT described by its algorithm, signing key, expiry and sub.   *)
(***************************************************************************)
MaxAuthRequests == 2

NoToken == [kind |-> "none"]
GarbageToken == [kind |-> "garbage"]
JwtTokens == [kind : {"jwt"}, alg : {"HS256", "none"}, key : {"jwtSecret", "other"},
              expired : BOOLEAN, sub : {"hex", "nothex", "missing"}]
Tokens == {NoToken, GarbageToken} \cup JwtTokens

NoHeader == [scheme |-> "", token |-> NoToken, trailing |-> FALSE]
AuthHeaders == {NoHeader} \cup [scheme : {"Bearer", "Basic"}, token : Tokens, trailing : BOOLEAN]

ProtectedRoutes == {"/api/drive/link", "/api/drive/accounts", "/api/drive/space",
                    "/api/files/upload/initiate", "/api/files/upload/chunk",
                    "/api/files/upload/finalize", "/api/files/upload/status/",
                    "/api/files/chunking/calculate"}

\* what a wrapped handler (behind requireMethod) may answer
HandlerCodes == {200, 400, 401, 404, 405, 500}

NoAuthReply == [n |-> 0, route |-> "", header |-> NoHeader, code |-> 0]

AuthIdle ==
    /\ authReply = NoAuthReply
    /\ handlerRuns = 0

\* fmt.Sscanf(h, "Bearer %s", &tok): the literal must match and a word must
\* follow; text after the word is not read
ScanBearer(h) ==
    IF h.scheme = "Bearer" /\ h.token.kind # "none"
    THEN [err |-> FALSE, tok |-> h.token]
    ELSE [err |-> TRUE, tok |-> NoToken]

\* variant: a parser that does not verify the signature
parseJWT_Mutant(tok) ==
    IF tok.kind # "jwt" \/ tok.alg # "HS256" \/ tok.expired
    THEN [err |-> TRUE, sub |-> ""]
    ELSE IF tok.sub = "missing" THEN [err |-> TRUE, sub |-> ""]
    ELSE [err |-> FALSE, sub |-> tok.sub]

\* jwt.Parse with the HS256 key function, token validity, then the sub claim
parseJWT(tok) ==
    IF tok.kind # "jwt" \/ tok.alg # "HS256" \/ tok.key # "jwtSecret" \/ tok.expired
    THEN [err |-> TRUE, sub |-> ""]
    ELSE IF tok.sub = "missing" THEN [err |-> TRUE, sub |-> ""]
    ELSE [err |-> FALSE, sub |-> tok.sub]

\* whether the middleware calls next.ServeHTTP
Authenticated(h) ==
    /\ h # NoHeader
    /\ ~ScanBearer(h).err
    /\ ~parseJWT(ScanBearer(h).tok).err
    /\ parseJWT(ScanBearer(h).tok).sub = "hex"

\* one request to a protected route: 401 from the middleware, or the
\* wrapped handler runs and answers
ProtectedRequest(route, h, handlerCode) ==
    /\ authReply.n < MaxAuthRequests
    /\ IF Authenticated(h)
       THEN /\ handlerRuns' = handlerRuns + 1
            /\ authReply' = [n |-> authReply.n + 1, route |-> route, header |-> h,
                             code |-> handlerCode]
       ELSE /\ handlerCode = 401
            /\ UNCHANGED handlerRuns
            /\ authReply' = [n |-> authReply.n + 1, route |-> route, header |-> h,
                             code |-> 401]
    /\ UNCHANGED <<codecVars, planVars, sessVars, maniVars, splitVars, roundTrip>>
    /\ UNCHANGED <<dlVars, cleanVars, sessReply, concVars>>

AuthNext ==
    \E route \in ProtectedRoutes, h \in AuthHeaders, handlerCode \in HandlerCodes :
        ProtectedRequest(route, h, handlerCode)

(***************************************************************************)
(* What the chunk, finalize and status handlers answer to a request that   *)
(* names a session of another user, a missing session or an expired one.   *)
(***************************************************************************)
MaxSessionRequests == 2

NoSessReply == [n |-> 0, handler |-> "", user |-> 0, sid |-> 0, code |-> 0, error |-> ""]

SessReplyIdle == sessReply = NoSessReply

\* fileprocessor.GetSession: the error it returns, "" when it returns the session
GetSessionError(sid, userID) ==
    CASE sessions[sid].status = "none" -> "session not found"
      [] sessions[sid].user_id # userID -> "unauthorized"
      [] expired[sid] -> "session expired"
      [] OTHER -> ""

SessionReply(handler, userID, sid, code, error) ==
    [n |-> sessReply.n + 1, handler |-> handler, user |-> userID, sid |-> sid,
     code |-> code, error |-> error]

\* UploadChunkHandler when GetSession returns an error:
\* http.Error(w, err.Error(), http.StatusBadRequest)
UploadChunkRefused(userID, sid) ==
    /\ ProcessUp
    /\ sessReply.n < MaxSessionRequests
    /\ GetSessionError(sid, userID) # ""
    /\ sessReply' = SessionReply("chunk", userID, sid, 400, GetSessionError(sid, userID))
    /\ UNCHANGED <<codecVars, planVars, sessVars, maniVars, splitVars, roundTrip>>
    /\ UNCHANGED <<dlVars, cleanVars, authVars, concVars>>

\* FinalizeUploadHandler when GetSession returns an error
FinalizeRefused(userID, sid) ==
    /\ ProcessUp
    /\ sessReply.n < MaxSessionRequests
    /\ GetSessionError(sid, userID) # ""
    /\ sessReply' = SessionReply("finalize", userID, sid, 400, GetSessionError(sid, userID))
    /\ UNCHANGED <<codecVars, planVars, sessVars, maniVars, splitVars, roundTrip>>
    /\ UNCHANGED <<dlVars, cleanVars, authVars, concVars>>

\* GetUploadStatusHandler: GetUploadSession, then the ownership test
GetUploadStatus(userID, sid, storeFails) ==
    /\ ProcessUp
    /\ sessReply.n < MaxSessionRequests
    /\ sessReply' =
          IF storeFails
          THEN SessionReply("status", userID, sid, 500, "failed to get session")
          ELSE IF sessions[sid].status = "none"
          THEN SessionReply("status", userID, sid, 404, "session not found")
          ELSE IF sessions[sid].user_id # userID
          THEN SessionReply("status", userID, sid, 401, "unauthorized")
          ELSE SessionReply("status", userID, sid, 200, "")
    /\ UNCHANGED <<codecVars, planVars, sessVars, maniVars, splitVars, roundTrip>>
    /\ UNCHANGED <<dlVars, cleanVars, authVars, concVars>>

(***************************************************************************)
(* The cancellation scope of the pipeline.  The repository holds two       *)
(* variants of FinalizeUploadHandler: one starts processAndUploadFile with *)
(* context.Background(), the other with the request's context, which       *)
(* net/http cancels when the handler returns or the client disconnects.    *)
(* A store or drive call made with a cancelled context returns an error    *)
(* and writes nothing.                                                     *)
(***************************************************************************)
FinalizeScopes == {"background", "request"}

ScopeSteps == <<"obfuscate", "spaces", "plan", "split", "upload", "keyfile">>

\* the progress each step writes first, and whether its work takes ctx
ScopeProgress == <<10, 20, 30, 50, 70, 95>>

ScopeStepUsesCtx == <<FALSE, TRUE, FALSE, FALSE, TRUE, FALSE>>

MaxCancelledCalls == 3

NoScope(variant) ==
    [variant |-> variant, handler |-> "idle", client |-> "connected", step |-> 0,
     status |-> "uploading", progress |-> 0, completed_at |-> FALSE, cancelledCalls |-> 0]

ScopeIdle == scope = NoScope("background")

\* ctx.Err() # nil for the context the pipeline was started with
ScopeCancelled ==
    scope.variant = "request" /\ (scope.handler = "returned" \/ scope.client = "gone")

\* one store update of the session made with the pipeline's ctx
ScopeStoreWrite(sc, status, progress) ==
    IF ScopeCancelled
    THEN [sc EXCEPT !.cancelledCalls = Min(sc.cancelledCalls + 1, MaxCancelledCalls)]
    ELSE [sc EXCEPT !.status = status, !.progress = progress]

\* FinalizeUploadHandler: status processing, then the go statement
ScopeFinalize ==
    /\ scope.handler = "idle" /\ scope.client = "connected"
    /\ scope' = [scope EXCEPT !.handler = "running", !.status = "processing",
                              !.progress = 0, !.step = 1]
    /\ UNCHANGED <<codecVars, planVars, sessVars, maniVars, splitVars, roundTrip>>
    /\ UNCHANGED <<dlVars, cleanVars, authVars, sessReply, scopeFrame>>

\* the handler writes its response and returns
ScopeHandlerReturns ==
    /\ scope.handler = "running"
    /\ scope' = [scope EXCEPT !.handler = "returned"]
    /\ UNCHANGED <<codecVars, planVars, sessVars, maniVars, splitVars, roundTrip>>
    /\ UNCHANGED <<dlVars, cleanVars, authVars, sessReply, scopeFrame>>

ScopeClientDisconnects ==
    /\ scope.handler # "idle" /\ scope.client = "connected"
    /\ scope' = [scope EXCEPT !.client = "gone"]
    /\ UNCHANGED <<codecVars, planVars, sessVars, maniVars, splitVars, roundTrip>>
    /\ UNCHANGED <<dlVars, cleanVars, authVars, sessReply, scopeFrame>>

\* steps 1-6 of processAndUploadFile: the progress update, the step's work,
\* and on an error the update to failed and the return
ScopePipelineStep(workFails) ==
    /\ scope.step \in 1..Len(ScopeSteps)
    /\ scope' =
          IF workFails \/ (ScopeStepUsesCtx[scope.step] /\ ScopeCancelled)
          THEN [ScopeStoreWrite(ScopeStoreWrite(scope, "processing", ScopeProgress[scope.step]),
                                "failed", ScopeProgress[scope.step])
                   EXCEPT !.step = Len(ScopeSteps) + 2]
          ELSE [ScopeStoreWrite(scope, "processing", ScopeProgress[scope.step])
                   EXCEPT !.step = scope.step + 1]
    /\ UNCHANGED <<codecVars, planVars, sessVars, maniVars, splitVars, roundTrip>>
    /\ UNCHANGED <<dlVars, cleanVars, authVars, sessReply, scopeFrame>>

\* step 7: CompleteSession and UpdateSessionStatus(complete, 100)
ScopePipelineCompletes ==
    /\ scope.step = Len(ScopeSteps) + 1
    /\ scope' = [ScopeStoreWrite(
                    IF ScopeCancelled
                    THEN ScopeStoreWrite(scope, "complete", scope.progress)
                    ELSE [scope EXCEPT !.status = "complete", !.completed_at = TRUE],
                    "complete", 100)
                   EXCEPT !.step = Len(ScopeSteps) + 2]
    /\ UNCHANGED <<codecVars, planVars, sessVars, maniVars, splitVars, roundTrip>>
    /\ UNCHANGED <<dlVars, cleanVars, authVars, sessReply, scopeFrame>>

ScopePipelineEnded == scope.step = Len(ScopeSteps) + 2

ScopeNext ==
    \/ ScopeFinalize
    \/ ScopeHandlerReturns
    \/ ScopeClientDisconnects
    \/ \E workFails \in BOOLEAN : ScopePipelineStep(workFails)
    \/ ScopePipelineCompletes

(***************************************************************************)
(* GetOrCreateManifest on one drive account.  The drive keeps every        *)
(* uploaded blob: a multipart POST creates a new file even when one of the *)
(* same name exists.                                                       *)
(***************************************************************************)
MaxManifestCallers == 3

MaxManifestBlobs == 3

ManifestCallers == 1..MaxManifestCallers

IdleCall == [pc |-> "idle", fileID |-> 0, err |-> FALSE]

GocIdle == driveBlobs = 0 /\ manifestCalls = [c \in ManifestCallers |-> IdleCall]

\* findManifest: an error when the search or the download fails and when
\* the search returns no file; otherwise the first file of the result
findManifest(lookupFails) ==
    IF lookupFails \/ driveBlobs = 0 THEN [err |-> TRUE, fileID |-> 0]
    ELSE [err |-> FALSE, fileID |-> 1]

\* GetOrCreateManifest up to the result of findManifest
GetOrCreateFind(c, lookupFails) ==
    /\ manifestCalls[c].pc = "idle"
    /\ manifestCalls' =
          [manifestCalls EXCEPT ![c] =
              IF findManifest(lookupFails).err
              THEN [pc |-> "create", fileID |-> 0, err |-> FALSE]
              ELSE [pc |-> "done", fileID |-> findManifest(lookupFails).fileID, err |-> FALSE]]
    /\ UNCHANGED driveBlobs
    /\ UNCHANGED <<codecVars, planVars, sessVars, maniVars, splitVars, roundTrip>>
    /\ UNCHANGED <<dlVars, cleanVars, authVars, sessReply, gocFrame>>

\* "Manifest doesn't exist, create new one": uploadManifest
GetOrCreateUpload(c, uploadFails) ==
    /\ manifestCalls[c].pc = "create"
    /\ driveBlobs < MaxManifestBlobs
    /\ IF uploadFails
       THEN /\ manifestCalls' = [manifestCalls EXCEPT ![c] = [pc |-> "done", fileID |-> 0, err |-> TRUE]]
            /\ UNCHANGED driveBlobs
       ELSE /\ driveBlobs' = driveBlobs + 1
            /\ manifestCalls' = [manifestCalls EXCEPT ![c] =
                                    [pc |-> "done", fileID |-> driveBlobs + 1, err |-> FALSE]]
    /\ UNCHANGED <<codecVars, planVars, sessVars, maniVars, splitVars, roundTrip>>
    /\ UNCHANGED <<dlVars, cleanVars, authVars, sessReply, gocFrame>>

\* the caller takes the result; it may call again
GetOrCreateReturns(c) ==
    /\ manifestCalls[c].pc = "done"
    /\ manifestCalls' = [manifestCalls EXCEPT ![c] = IdleCall]
    /\ UNCHANGED driveBlobs
    /\ UNCHANGED <<codecVars, planVars, sessVars, maniVars, splitVars, roundTrip>>
    /\ UNCHANGED <<dlVars, cleanVars, authVars, sessReply, gocFrame>>

GetOrCreateNext ==
    \/ \E c \in ManifestCallers, lookupFails \in BOOLEAN : GetOrCreateFind(c, lookupFails)
    \/ \E c \in ManifestCallers, uploadFails \in BOOLEAN : GetOrCreateUpload(c, uploadFails)
    \/ \E c \in ManifestCallers : GetOrCreateReturns(c)

(***************************************************************************)
(* DownloadChunksParallel: one goroutine per chunk, a WaitGroup and a      *)
(* buffered channel used as a semaphore.                                   *)
(***************************************************************************)
MaxParallelEnv == 2

MaxPoolChunks == 3

PoolChunks == 1..MaxPoolChunks

\* InitDownloadConfig: strconv.Atoi of MAX_PARALLEL_DOWNLOADS, negative -> 1
InitDownloadConfig(env) == IF env < 0 THEN 1 ELSE env

\* "if maxParallel <= 0 { maxParallel = 1 }"
SerialIfUnset(maxParallel) == IF maxParallel <= 0 THEN 1 ELSE maxParallel

SemaphoreHasRoom_Mutant(held, capacity) == TRUE

\* a send on the buffered channel proceeds while it holds fewer than cap
SemaphoreHasRoom(held, capacity) == held < capacity

IdlePool(env) ==
    [env |-> env, maxParallelDownload |-> InitDownloadConfig(env), pc |-> "idle",
     chunks |-> 0, spawned |-> 0, wg |-> 0, semaphore |-> 0, capacity |-> 0]

PoolIdle == pool = IdlePool(0) /\ workers = [i \in PoolChunks |-> "none"]

\* the call: the arrays, the WaitGroup and the semaphore channel
ParallelCall(n) ==
    /\ pool.pc = "idle"
    /\ pool' = [pool EXCEPT !.pc = "spawning", !.chunks = n,
                            !.capacity = SerialIfUnset(pool.maxParallelDownload)]
    /\ UNCHANGED workers
    /\ UNCHANGED <<codecVars, planVars, sessVars, maniVars, splitVars, roundTrip>>
    /\ UNCHANGED <<dlVars, cleanVars, authVars, sessReply, poolFrame>>

\* one iteration of the loop: wg.Add(1) and the go statement
ParallelSpawn ==
    /\ pool.pc = "spawning" /\ pool.spawned < pool.chunks
    /\ pool' = [pool EXCEPT !.spawned = pool.spawned + 1, !.wg = pool.wg + 1]
    /\ workers' = [workers EXCEPT ![pool.spawned + 1] = "started"]
    /\ UNCHANGED <<codecVars, planVars, sessVars, maniVars, splitVars, roundTrip>>
    /\ UNCHANGED <<dlVars, cleanVars, authVars, sessReply, poolFrame>>

\* "semaphore <- struct{}{}"
WorkerAcquires(i) ==
    /\ workers[i] = "started"
    /\ SemaphoreHasRoom(pool.semaphore, pool.capacity)
    /\ pool' = [pool EXCEPT !.semaphore = pool.semaphore + 1]
    /\ workers' = [workers EXCEPT ![i] = "downloading"]
    /\ UNCHANGED <<codecVars, planVars, sessVars, maniVars, splitVars, roundTrip>>
    /\ UNCHANGED <<dlVars, cleanVars, authVars, sessReply, poolFrame>>

\* DownloadChunkFromDrive returns; the deferred release and wg.Done run
WorkerFinishes(i, downloadFails) ==
    /\ workers[i] = "downloading"
    /\ pool' = [pool EXCEPT !.semaphore = pool.semaphore - 1, !.wg = pool.wg - 1]
    /\ workers' = [workers EXCEPT ![i] = IF downloadFails THEN "failed" ELSE "downloaded"]
    /\ UNCHANGED <<codecVars, planVars, sessVars, maniVars, splitVars, roundTrip>>
    /\ UNCHANGED <<dlVars, cleanVars, authVars, sessReply, poolFrame>>

\* wg.Wait() returns, then the error scan and the return
ParallelReturns ==
    /\ pool.pc = "spawning" /\ pool.spawned = pool.chunks
    /\ pool.wg = 0
    /\ pool' = [pool EXCEPT !.pc = IF \E i \in PoolChunks : workers[i] = "failed"
                                  THEN "error" ELSE "returned"]
    /\ UNCHANGED workers
    /\ UNCHANGED <<codecVars, planVars, sessVars, maniVars, splitVars, roundTrip>>
    /\ UNCHANGED <<dlVars, cleanVars, authVars, sessReply, poolFrame>>

PoolNext ==
    \/ \E n \in 0..MaxPoolChunks : ParallelCall(n)
    \/ ParallelSpawn
    \/ \E i \in PoolChunks : WorkerAcquires(i)
    \/ \E i \in PoolChunks, downloadFails \in BOOLEAN : WorkerFinishes(i, downloadFails)
    \/ ParallelReturns

(***************************************************************************)
(* processDownload and its temp artifacts.  A session's artifacts are      *)
(* TempFilePath + "_chunks", "_obfuscated" and "_reconstructed", and       *)
(* TempFilePath is downloadTempDir/<userID>_<fileID>.                      *)
(***************************************************************************)
MaxTempSessions == 2

MaxTempUsers == 2

MaxTempFiles == 2

TempSessions == 1..MaxTempSessions

\* filepath.Join(downloadTempDir, userID_fileID): the session id is no part
TempFilePath(d, userID, fileID) == <<userID, fileID>>

TempPaths == (1..MaxTempUsers) \X (1..MaxTempFiles)

ArtifactKinds == {"_chunks", "_obfuscated", "_reconstructed"}

NoTempProc == [pc |-> "none", path |-> <<0, 0>>]

TempIdle ==
    /\ tempProcs = [d \in TempSessions |-> NoTempProc]
    /\ tempFs = [k \in ArtifactKinds |-> [t \in TempPaths |-> 0]]
    /\ tempCollisions = {}

TempRunning(d) == tempProcs[d].pc \in {"download", "reconstruct", "deobfuscate"}

\* session d touches an artifact last written by another running session
TempForeign(d, kind) ==
    /\ tempFs[kind][tempProcs[d].path] \notin {0, d}
    /\ TempRunning(tempFs[kind][tempProcs[d].path])

TempWrite(fs, d, kind) == [fs EXCEPT ![kind][tempProcs[d].path] = d]

TempRemove(fs, d, kind) == [fs EXCEPT ![kind][tempProcs[d].path] = 0]

\* InitiateDownloadHandler: the session and go processDownload
TempInitiate(d, userID, fileID) ==
    /\ tempProcs[d].pc = "none"
    /\ tempProcs' = [tempProcs EXCEPT ![d] =
                        [pc |-> "download", path |-> TempFilePath(d, userID, fileID)]]
    /\ UNCHANGED <<tempFs, tempCollisions>>
    /\ UNCHANGED <<codecVars, planVars, sessVars, maniVars, splitVars, roundTrip>>
    /\ UNCHANGED <<dlVars, cleanVars, authVars, sessReply, tempFrame>>

\* step 1: MkdirAll(chunkDir) and DownloadChunksParallel into it; on an
\* error the return runs the deferred RemoveAll(chunkDir)
TempDownload(d, downloadFails) ==
    /\ tempProcs[d].pc = "download"
    /\ tempCollisions' = tempCollisions \cup
          (IF TempForeign(d, "_chunks")
           THEN {IF downloadFails THEN "delete" ELSE "overwrite"} ELSE {})
    /\ IF downloadFails
       THEN /\ tempFs' = TempRemove(tempFs, d, "_chunks")
            /\ tempProcs' = [tempProcs EXCEPT ![d].pc = "failed"]
       ELSE /\ tempFs' = TempWrite(tempFs, d, "_chunks")
            /\ tempProcs' = [tempProcs EXCEPT ![d].pc = "reconstruct"]
    /\ UNCHANGED <<codecVars, planVars, sessVars, maniVars, splitVars, roundTrip>>
    /\ UNCHANGED <<dlVars, cleanVars, authVars, sessReply, tempFrame>>

\* steps 2 and 3: the checksums of the chunk files and ReconstructFile into
\* TempFilePath_obfuscated; missing chunk files fail the session
TempReconstruct(d) ==
    /\ tempProcs[d].pc = "reconstruct"
    /\ IF tempFs["_chunks"][tempProcs[d].path] = 0
       THEN /\ tempFs' = tempFs
            /\ tempProcs' = [tempProcs EXCEPT ![d].pc = "failed"]
            /\ UNCHANGED tempCollisions
       ELSE /\ tempFs' = TempWrite(tempFs, d, "_obfuscated")
            /\ tempProcs' = [tempProcs EXCEPT ![d].pc = "deobfuscate"]
            /\ tempCollisions' = tempCollisions
                  \cup (IF TempForeign(d, "_chunks") THEN {"read"} ELSE {})
                  \cup (IF TempForeign(d, "_obfuscated") THEN {"overwrite"} ELSE {})
    /\ UNCHANGED <<codecVars, planVars, sessVars, maniVars, splitVars, roundTrip>>
    /\ UNCHANGED <<dlVars, cleanVars, authVars, sessReply, tempFrame>>

\* steps 4 and 5: DeobfuscateFile into TempFilePath_reconstructed, then the
\* return with the deferred Remove(obfuscatedPath) and RemoveAll(chunkDir)
TempDeobfuscate(d) ==
    /\ tempProcs[d].pc = "deobfuscate"
    /\ tempFs' =
          IF tempFs["_obfuscated"][tempProcs[d].path] = 0
          THEN TempRemove(tempFs, d, "_chunks")
          ELSE TempRemove(TempRemove(TempWrite(tempFs, d, "_reconstructed"),
                                     d, "_obfuscated"), d, "_chunks")
    /\ tempProcs' = [tempProcs EXCEPT ![d].pc =
                        IF tempFs["_obfuscated"][tempProcs[d].path] = 0
                        THEN "failed" ELSE "complete"]
    /\ tempCollisions' = tempCollisions
          \cup (IF TempForeign(d, "_obfuscated") THEN {"read", "delete"} ELSE {})
          \cup (IF TempForeign(d, "_chunks") THEN {"delete"} ELSE {})
          \cup (IF /\ tempFs["_obfuscated"][tempProcs[d].path] # 0
                   /\ TempForeign(d, "_reconstructed") THEN {"overwrite"} ELSE {})
    /\ UNCHANGED <<codecVars, planVars, sessVars, maniVars, splitVars, roundTrip>>
    /\ UNCHANGED <<dlVars, cleanVars, authVars, sessReply, tempFrame>>

TempNext ==
    \/ \E d \in TempSessions, userID \in 1..MaxTempUsers, fileID \in 1..MaxTempFiles :
          TempInitiate(d, userID, fileID)
    \/ \E d \in TempSessions, downloadFails \in BOOLEAN : TempDownload(d, downloadFails)
    \/ \E d \in TempSessions : TempReconstruct(d)
    \/ \E d \in TempSessions : TempDeobfuscate(d)

(***************************************************************************)
(* A client that uploads its file as the API documents: chunk requests     *)
(* with pairwise non-overlapping ranges, in any order and concurrently,    *)
(* and finalize once every chunk request has been answered.                *)
(***************************************************************************)
MaxUploadTotal == 3

MaxUploadLen == 2

ClientIdle == clientSent = {}

\* the client's next chunk request: a range it has not sent yet
ClientUploadChunk(c, offset, written) ==
    /\ offset + written <= sessions[1].total_size
    /\ (offset..(offset + written - 1)) \cap clientSent = {}
    /\ UploadChunkRead(c, 1, offset, written)
    /\ clientSent' = clientSent \cup (offset..(offset + written - 1))
    /\ UNCHANGED <<splitVars, roundTrip, dlVars, cleanVars, authVars, sessReply, clientFrame>>

\* the client's finalize request, sent when its ranges cover the file and
\* every chunk request has been answered
ClientFinalize(f, strategy) ==
    /\ clientSent = 0..(sessions[1].total_size - 1)
    /\ \A c \in Slots : chunkReqs[c].pc = "idle"
    /\ sessions[1].status = "uploading"
    /\ FinalizeBegin(f, 1, strategy)

UploadNext ==
    \/ \E c \in Slots, offset \in 0..(MaxUploadTotal - 1), written \in 1..MaxUploadLen :
          ClientUploadChunk(c, offset, written)
    \/ \E c \in Slots : UploadChunkFinish(c)
    \/ \E f \in Slots, strategy \in SessionStrategies : ClientFinalize(f, strategy)
    \/ \E f \in Slots : FinalizeReject(f)
    \/ \E f \in Slots : FinalizeCommit(f)

ConcIdle == ScopeIdle /\ GocIdle /\ PoolIdle /\ TempIdle /\ ClientIdle

ReqIdle == DownloadIdle /\ CleanupIdle /\ AuthIdle /\ SessReplyIdle /\ ConcIdle

AuxIdle == SplitIdle /\ RoundTripIdle /\ ReqIdle

PlanIdle ==
    /\ planPc = "idle"
    /\ planIn = [fileSize |-> 0, driveSpaces |-> <<>>, strategy |-> "other", manualSizes |-> <<>>]
    /\ planOut = PlanErr

CodecIdle ==
    /\ codecPc = "idle"
    /\ codecIn = [data |-> <<>>, seedLen |-> SeedSize, keys |-> <<>>, B |-> 1, p |-> 8, g |-> 1]
    /\ codecObf = <<>>
    /\ codecOut = [status |-> "none", out |-> <<>>]

vars == <<codecVars, planVars, sessVars, maniVars, auxVars>>

Init == Init0 /\ PlanIdle /\ CodecIdle /\ AuxIdle

Spec == Init /\ [][Next]_vars

InitPlan == PlanInit /\ CodecIdle /\ Init0 /\ AuxIdle

SpecPlan == InitPlan /\ [][PlanNext]_vars

InitPlanLarge == PlanLargeInit /\ CodecIdle /\ Init0 /\ AuxIdle

SpecPlanLarge == InitPlanLarge /\ [][PlanNext]_vars

InitCodec == CodecInit /\ PlanIdle /\ Init0 /\ AuxIdle

SpecCodec == InitCodec /\ [][CodecNext]_vars

InitCodecErr == CodecErrInit /\ PlanIdle /\ Init0 /\ AuxIdle

SpecCodecErr == InitCodecErr /\ [][CodecErrNext]_vars

InitSplit == SplitInit /\ RoundTripIdle /\ ReqIdle /\ PlanIdle /\ CodecIdle /\ Init0

SpecSplit == InitSplit /\ [][SplitNext]_vars

InitRoundTrip == RoundTripInit /\ SplitIdle /\ ReqIdle /\ PlanIdle /\ CodecIdle /\ Init0

SpecRoundTrip == InitRoundTrip /\ [][RoundTripNext]_vars

InitDownload == Init0 /\ PlanIdle /\ CodecIdle /\ AuxIdle

SpecDownload == InitDownload /\ [][DownloadNext]_vars

\* one statement of the goroutine running processAndUploadFile for run r
PipelineStep(r) ==
    \/ RunStart(r)
    \/ RunObfuscate(r)
    \/ RunSpaces(r)
    \/ RunPlan(r)
    \/ RunSplit(r)
    \/ RunProgress(r)
    \/ RunUploadChunk(r)
    \/ RunSave(r)
    \/ RunCreateStoredFile(r)
    \/ RunKeyFile(r)
    \/ RunComplete(r)
    \/ RunFinish(r)

\* SpecLive: the Go scheduler runs every goroutine that can run, and every
\* store, disk and drive call of a pipeline returns, so a pipeline that has
\* a next statement eventually executes it
\* the store once a client has sent every byte of session 1 in order, no
\* request in flight
InitLive ==
    /\ \E total \in 1..MaxTotal :
          /\ sessions = [s \in SessionIds |->
                            IF s = 1 THEN [NewSession(1, total) EXCEPT !.uploaded_size = total]
                                     ELSE NoSession]
          /\ tempLen = [s \in SessionIds |-> IF s = 1 THEN total ELSE 0]
          /\ received = [s \in SessionIds |-> IF s = 1 THEN 0..(total - 1) ELSE {}]
    /\ expired = [s \in SessionIds |-> FALSE]
    /\ chunkReqs = [c \in Slots |-> IdleReq]
    /\ finReqs = [f \in Slots |-> IdleFin]
    /\ runs = [r \in RunIds |-> IdleRun]
    /\ storedFiles = [s \in SessionIds |-> 0]
    /\ keyFiles = [s \in SessionIds |-> FALSE]
    /\ chunkCount = 0
    /\ initReqs = [q \in InitSlots |-> IdleInit]
    /\ ManifestInit
    /\ PlanIdle
    /\ CodecIdle
    /\ AuxIdle

\* finalize requests and the pipelines they start
LiveNext ==
    \/ \E f \in Slots, s \in SessionIds, strategy \in SessionStrategies :
          FinalizeBegin(f, s, strategy)
    \/ \E f \in Slots : FinalizeReject(f)
    \/ \E f \in Slots : FinalizeCommit(f)
    \/ \E r \in RunIds : PipelineStep(r)

SpecLive == InitLive /\ [][LiveNext]_vars /\ \A r \in RunIds : WF_vars(PipelineStep(r))

\* finalize requests, their pipelines and the cleanup timers
CleanupNext ==
    \/ \E f \in Slots, s \in SessionIds, strategy \in SessionStrategies :
          FinalizeBegin(f, s, strategy)
    \/ \E f \in Slots : FinalizeReject(f)
    \/ \E f \in Slots : FinalizeCommit(f)
    \/ \E r \in RunIds : PipelineStep(r)
    \/ \E r \in RunIds : CleanupFires(r)

SpecCleanup == InitLive /\ [][CleanupNext]_vars

MaxLateChunks == 1

\* a chunk request that reaches GetSession after finalize was accepted
LateChunkBegin(c, s, offset, written) ==
    /\ chunkCount < MaxLateChunks
    /\ sessions[s].status \in {"processing", "complete", "failed"}
    /\ UploadChunkBegin(c, s, offset, written)

\* finalize requests, their pipelines and chunk requests that arrive late
LateNext ==
    \/ \E f \in Slots, s \in SessionIds, strategy \in SessionStrategies :
          FinalizeBegin(f, s, strategy)
    \/ \E f \in Slots : FinalizeReject(f)
    \/ \E f \in Slots : FinalizeCommit(f)
    \/ \E r \in RunIds : PipelineStep(r)
    \/ \E c \in Slots, s \in SessionIds, offset \in 0..MaxTotal, written \in ChunkLens :
          LateChunkBegin(c, s, offset, written)
    \/ \E c \in Slots : UploadChunkFinish(c)

SpecLate == InitLive /\ [][LateNext]_vars

InitScope ==
    /\ Init0 /\ PlanIdle /\ CodecIdle /\ SplitIdle /\ RoundTripIdle
    /\ DownloadIdle /\ CleanupIdle /\ AuthIdle /\ SessReplyIdle
    /\ GocIdle /\ PoolIdle /\ TempIdle /\ ClientIdle
    /\ \E variant \in FinalizeScopes : scope = NoScope(variant)

SpecScope == InitScope /\ [][ScopeNext]_vars

InitPool ==
    /\ Init0 /\ PlanIdle /\ CodecIdle /\ SplitIdle /\ RoundTripIdle
    /\ DownloadIdle /\ CleanupIdle /\ AuthIdle /\ SessReplyIdle
    /\ ScopeIdle /\ GocIdle /\ TempIdle /\ ClientIdle
    /\ \E env \in (0 - 1)..MaxParallelEnv : pool = IdlePool(env)
    /\ workers = [i \in PoolChunks |-> "none"]

SpecPool == InitPool /\ [][PoolNext]_vars

InitUpload ==
    /\ \E total \in 1..MaxUploadTotal :
          sessions = [s \in SessionIds |-> IF s = 1 THEN NewSession(1, total) ELSE NoSession]
    /\ tempLen = [s \in SessionIds |-> 0]
    /\ received = [s \in SessionIds |-> {}]
    /\ expired = [s \in SessionIds |-> FALSE]
    /\ chunkReqs = [c \in Slots |-> IdleReq]
    /\ finReqs = [f \in Slots |-> IdleFin]
    /\ runs = [r \in RunIds |-> IdleRun]
    /\ storedFiles = [s \in SessionIds |-> 0]
    /\ keyFiles = [s \in SessionIds |-> FALSE]
    /\ chunkCount = 0
    /\ initReqs = [q \in InitSlots |-> IdleInit]
    /\ ManifestInit
    /\ PlanIdle
    /\ CodecIdle
    /\ AuxIdle

SpecUpload == InitUpload /\ [][UploadNext]_vars

InitTemp == Init0 /\ PlanIdle /\ CodecIdle /\ AuxIdle

SpecTemp == InitTemp /\ [][TempNext]_vars

InitGetOrCreate == Init0 /\ PlanIdle /\ CodecIdle /\ AuxIdle

SpecGetOrCreate == InitGetOrCreate /\ [][GetOrCreateNext]_vars

InitManifest == Init0 /\ PlanIdle /\ CodecIdle /\ AuxIdle

SpecManifest == InitManifest /\ [][ManifestNext]_vars

\* SpecInitiate: initiate requests of several users served concurrently
InitiateNext ==
    \/ \E q \in InitSlots, userID \in UserIds, fileSize \in 0..MaxTotal :
          InitiateUploadConcurrent(q, userID, fileSize)
    \/ \E q \in InitSlots : InitiateCommit(q)
    \/ \E s \in SessionIds : SessionExpires(s)

InitInitiate == Init0 /\ PlanIdle /\ CodecIdle /\ AuxIdle

SpecInitiate == InitInitiate /\ [][InitiateNext]_vars

InitAuth == Init0 /\ PlanIdle /\ CodecIdle /\ AuxIdle

SpecAuth == InitAuth /\ [][AuthNext]_vars

\* SpecSessionErr: sessions of several users and requests naming them
SessionErrNext ==
    \/ \E q \in InitSlots, userID \in UserIds, fileSize \in 0..MaxTotal :
          InitiateUploadConcurrent(q, userID, fileSize)
    \/ \E q \in InitSlots : InitiateCommit(q)
    \/ \E s \in SessionIds : SessionExpires(s)
    \/ \E userID \in UserIds, s \in SessionIds : UploadChunkRefused(userID, s)
    \/ \E userID \in UserIds, s \in SessionIds : FinalizeRefused(userID, s)
    \/ \E userID \in UserIds, s \in SessionIds, storeFails \in BOOLEAN :
          GetUploadStatus(userID, s, storeFails)

InitSessionErr == Init0 /\ PlanIdle /\ CodecIdle /\ AuxIdle

SpecSessionErr == InitSessionErr /\ [][SessionErrNext]_vars

RunsOf(s) == {r \in RunIds : runs[r].pc # "idle" /\ runs[r].sid = s}

ChunksInFlight(s) == {c \in Slots : chunkReqs[c].pc # "idle" /\ chunkReqs[c].sid = s}

\* C1: a session whose status is complete or failed keeps that status in every step
TerminalAbsorbing ==
    [][\A s \in SessionIds :
          sessions[s].status \in {"complete", "failed"} =>
              sessions'[s].status = sessions[s].status]_vars

\* C2: no pipeline is started by a finalize request that found the session
\* already processing or complete
FinalizeIdempotent ==
    \A r \in RunIds :
        runs[r].pc # "idle" => runs[r].from \notin {"processing", "complete"}

\* C3: once no chunk request of a session is in flight, uploaded_size is the
\* maximum of offset + len over the chunk requests that completed
UploadedSizeIsMax ==
    \A s \in SessionIds :
        ChunksInFlight(s) = {} => sessions[s].uploaded_size = tempLen[s]

UploadFailedRun(r) == runs[r].pc = "failed" /\ runs[r].cause = "upload"

\* the step in which run r finds that the upload of its chunk i failed
UploadFailureStep(r) ==
    runs[r].pc = "upload" /\ runs'[r].pc = "failed" /\ runs'[r].cause = "upload"

\* C5: when the upload of chunk i fails, the run has uploaded exactly the
\* chunks before i and issues a delete for each of them, the step leaves the
\* session failed, and the run creates no StoredFile and writes no key file
\* (neither in that step nor before or after it); if it is the session's
\* only run, the session stays failed with no StoredFile and no key file
RollbackOnUploadFailure ==
    /\ [][\A r \in RunIds :
            UploadFailureStep(r) =>
                /\ runs[r].up = {j \in 1..Len(runs[r].plan) : j < runs[r].i}
                /\ \A j \in runs[r].up : j \in runs'[r].del
                /\ sessions'[runs[r].sid].status = "failed"
                /\ storedFiles' = storedFiles
                /\ keyFiles' = keyFiles]_vars
    /\ [](\A r \in RunIds :
            UploadFailedRun(r) =>
                /\ \A j \in runs[r].up : j \in runs[r].del
                /\ ~runs[r].created /\ ~runs[r].keyed
                /\ RunsOf(runs[r].sid) = {r} =>
                      /\ sessions[runs[r].sid].status = "failed"
                      /\ storedFiles[runs[r].sid] = 0
                      /\ ~keyFiles[runs[r].sid])

\* the upload of chunk 2 failed after chunk 1 had been uploaded
RollbackWitness ==
    \E r \in RunIds :
        /\ UploadFailedRun(r) /\ runs[r].i = 2 /\ runs[r].up = {1}
        /\ RunsOf(runs[r].sid) = {r}

\* C6: a run that ended failed has issued a delete for every chunk it uploaded
NoOrphanChunks ==
    \A r \in RunIds :
        runs[r].pc = "failed" => \A j \in runs[r].up : j \in runs[r].del

\* C7: a failed session has no StoredFile with its file_id
FailedHasNoStoredFile ==
    \A s \in SessionIds : sessions[s].status = "failed" => storedFiles[s] = 0

\* C8: a complete session has a StoredFile with its file_id
CompleteHasStoredFile ==
    \A s \in SessionIds : sessions[s].status = "complete" => storedFiles[s] >= 1

CompleteWitness ==
    \E s \in SessionIds : sessions[s].status = "complete" /\ storedFiles[s] >= 1


PlanSucceeded == planPc = "done" /\ planOut.ok

\* C9: a successful plan is a contiguous partition of [0, file_size)
PlanIsPartition ==
    PlanSucceeded =>
        LET plan == planOut.plan IN
        /\ SumSeq([i \in 1..Len(plan) |-> plan[i].size]) = planIn.fileSize
        /\ plan # <<>> => plan[1].start_offset = 0
        /\ \A i \in 1..Len(plan) : plan[i].end_offset = plan[i].start_offset + plan[i].size
        /\ \A i \in 1..(Len(plan) - 1) : plan[i].end_offset = plan[i + 1].start_offset

PlanIsPartitionNonNeg == planIn.fileSize >= 0 => PlanIsPartition

\* C10: chunks fit their drive and only usable drives are used
PlanFitsDrives ==
    PlanSucceeded =>
        \A i \in 1..Len(planOut.plan) :
            LET c == planOut.plan[i]
                d == planIn.driveSpaces[c.drive_account_id]
            IN /\ c.size <= d.free
               /\ d.avail
               /\ d.free > 0

\* a plan of two chunks over drives of which one is unavailable with free space
PlanFitsWitness ==
    /\ PlanSucceeded
    /\ Len(planOut.plan) >= 2
    /\ \E i \in 1..Len(planIn.driveSpaces) :
          ~planIn.driveSpaces[i].avail /\ planIn.driveSpaces[i].free > 0

\* C11: a successful plan numbers its chunks 1..k in emission order and has
\* no chunk of size 0
PlanIdsDense ==
    PlanSucceeded =>
        \A i \in 1..Len(planOut.plan) :
            planOut.plan[i].chunk_id = i /\ planOut.plan[i].size # 0

\* free space of the drives with available = true and free_space > 0
UsableFreeSpace ==
    SumSeq([i \in 1..Len(planIn.driveSpaces) |->
               IF planIn.driveSpaces[i].avail /\ planIn.driveSpaces[i].free > 0
               THEN planIn.driveSpaces[i].free ELSE 0])

NoDriveUsable ==
    \A i \in 1..Len(planIn.driveSpaces) :
        ~planIn.driveSpaces[i].avail \/ planIn.driveSpaces[i].free <= 0

\* C12: the planner returns an error and no plan when the usable drives hold
\* less than file_size, and when no drive is usable
PlanRejectsInsufficient ==
    (planPc = "done" /\ (NoDriveUsable \/ UsableFreeSpace < planIn.fileSize)) =>
        planOut = PlanErr

\* a proportional request rejected for lack of space although a usable drive
\* exists
PlanRejectsWitness ==
    /\ planPc = "done" /\ ~planOut.ok
    /\ planIn.strategy = StrategyProportional
    /\ ~NoDriveUsable /\ UsableFreeSpace < planIn.fileSize

\* C13: a session that finalize moved to processing has received every byte
\* of [0, total_size)
FinalizeChecksContiguity ==
    \A s \in SessionIds :
        sessions[s].status = "processing" =>
            \A b \in 0..(sessions[s].total_size - 1) : b \in received[s]

\* C14: 0 <= uploaded_size <= total_size in every state of a session
UploadedWithinTotal ==
    \A s \in SessionIds :
        sessions[s].status # "none" =>
            /\ 0 <= sessions[s].uploaded_size
            /\ sessions[s].uploaded_size <= sessions[s].total_size

\* C15: no step lowers a session's processing_progress
ProgressNonDecreasing ==
    [][\A s \in SessionIds :
          sessions'[s].processing_progress >= sessions[s].processing_progress]_vars

\* C20: no run ends failed because the manifest step of a chunk failed
ManifestFailureTolerated ==
    \A r \in RunIds : runs[r].pc = "failed" => runs[r].cause # "manifest"

\* a finalize request passed the handler's checks only on a session that
\* existed, had not expired and had every byte counted
AcceptedOnlyWhenComplete ==
    \A f \in Slots :
        finReqs[f].pc = "checked" <=>
            /\ finReqs[f].pc # "idle"
            /\ finReqs[f].seen.found
            /\ ~finReqs[f].seen.expired
            /\ finReqs[f].seen.uploaded_size = finReqs[f].seen.total_size

\* answering a rejected finalize changes no session and starts no pipeline
RejectionChangesNothing ==
    \A f \in Slots :
        (finReqs[f].pc = "rejected" /\ finReqs'[f].pc = "idle") =>
            (sessions' = sessions /\ runs' = runs)

\* a pipeline starts only in the step that commits an accepted finalize
PipelineOnlyFromAccepted ==
    \A r \in RunIds :
        (runs[r].pc = "idle" /\ runs'[r].pc # "idle") =>
            \E f \in Slots :
                /\ finReqs[f].pc = "checked"
                /\ finReqs'[f].pc = "idle"
                /\ runs'[r].sid = finReqs[f].sid

\* C19: a finalize is accepted only when uploaded_size = total_size and the
\* session has not expired; otherwise it is rejected, the session's status and
\* progress stay as they were and no pipeline is started
FinalizeAcceptance ==
    /\ []AcceptedOnlyWhenComplete
    /\ [][RejectionChangesNothing /\ PipelineOnlyFromAccepted]_vars

FinalizeAcceptanceWitness ==
    \E f, g \in Slots :
        /\ finReqs[f].pc = "rejected"
        /\ finReqs[f].seen.found
        /\ finReqs[g].pc = "checked"

\* C17: no user ever has more sessions in uploading or processing than
\* maxConcurrentPerUser, however initiate requests are interleaved
ConcurrencyCapHolds ==
    \A u \in UserIds : CountActiveUserSessions(u) <= maxConcurrentPerUser

NoManifestUpdateLost ==
    (\A a \in AdderIds : adders[a].pc = "idle") =>
        \A fileEntry \in added : InManifest(manifest, fileEntry)

\* the length the obfuscated file is specified to have: N + k B with
\* k = max(1, floor(N p / 100 / B))
SpecifiedLength(N, B, p) == N + Max(1, (N * p) \div (100 * B)) * B

\* C23: for every input length N >= 1, N = g included, ObfuscateFile
\* completes, writes exactly N + k B bytes and returns that number as the
\* processed size
ObfuscatedLengthExact ==
    /\ codecPc # "crashed"
    /\ codecPc \in {"obfuscated", "done"} =>
          /\ Len(codecObf) = SpecifiedLength(Len(codecIn.data), codecIn.B, codecIn.p)
          /\ ObfuscateFile(codecIn.data, codecIn.seedLen, codecIn.keys, codecIn.B,
                           codecIn.p, codecIn.g).processedSize = Len(codecObf)

\* the same for the inputs on which ObfuscateFile returns
ObfuscatedLengthWhenReturned ==
    codecPc \in {"obfuscated", "done"} =>
        Len(codecObf) = SpecifiedLength(Len(codecIn.data), codecIn.B, codecIn.p)

\* the offsets as specified: keystream words modulo max(1, N - g), ascending
SpecifiedOffsets(keys, N, k, g) ==
    BubbleSort([i \in 1..k |-> KeyWord(keys, i) % Max(1, N - g)], 1)

\* C29: ObfuscateFile and DeobfuscateFile derive the same k offsets, each a
\* keystream word modulo max(1, N - g), in ascending order; for N <= g they
\* are all 0
OffsetsAsSpecified ==
    codecPc # "start" =>
        LET N == Len(codecIn.data)
            k == NumInjections(N, codecIn.p, codecIn.B)
            forward == generateInjectionOffsets(codecIn.keys, N, k, codecIn.g)
            inverse == generateInjectionOffsets(codecIn.keys, N,
                                                (Len(codecObf) - N) \div codecIn.B, codecIn.g)
        IN /\ ~forward.panic
           /\ forward.offsets = SpecifiedOffsets(codecIn.keys, N, k, codecIn.g)
           /\ inverse = forward
           /\ N <= codecIn.g => \A i \in 1..k : forward.offsets[i] = 0

\* the two directions agree, and the offsets are ascending, whenever
\* ObfuscateFile returns
OffsetsAgree ==
    codecPc \in {"obfuscated", "done"} =>
        LET N == Len(codecIn.data)
            k == NumInjections(N, codecIn.p, codecIn.B)
            forward == generateInjectionOffsets(codecIn.keys, N, k, codecIn.g)
            inverse == generateInjectionOffsets(codecIn.keys, N,
                                                (Len(codecObf) - N) \div codecIn.B, codecIn.g)
        IN /\ inverse = forward
           /\ \A i \in 1..(k - 1) : forward.offsets[i] <= forward.offsets[i + 1]
           /\ N > codecIn.g =>
                 forward.offsets = SpecifiedOffsets(codecIn.keys, N, k, codecIn.g)

\* the arguments both directions must refuse
CodecArgsIllegal ==
    \/ codecIn.seedLen # SeedSize
    \/ codecIn.B <= 0
    \/ Len(codecIn.data) <= 0

\* the files DeobfuscateFile must refuse: N' < N or (N' - N) mod B # 0
ProcessedFileIllegal ==
    \/ Len(codecObf) < Len(codecIn.data)
    \/ codecIn.B > 0 /\ (Len(codecObf) - Len(codecIn.data)) % codecIn.B # 0

\* C30: with a seed that is not 32 bytes, B <= 0 or an original size <= 0
\* both directions return an error, and so does DeobfuscateFile when
\* N' < N or (N' - N) mod B # 0; neither ends abnormally or produces output
CodecErrorsReturned ==
    /\ (codecPc \in {"obfuscated", "error", "crashed"} /\ codecOut.status = "none"
          /\ CodecArgsIllegal) => codecPc = "error"
    /\ (codecOut.status # "none" /\ (CodecArgsIllegal \/ ProcessedFileIllegal)) =>
          codecOut.status = "error"

\* the part of C30 about DeobfuscateFile
InverseErrorsReturned ==
    (codecOut.status # "none" /\ (CodecArgsIllegal \/ ProcessedFileIllegal)) =>
        codecOut.status = "error"

\* the part of C30 about ObfuscateFile with a seed of the wrong length
ForwardSeedErrorReturned ==
    (codecPc \in {"obfuscated", "error", "crashed"} /\ codecOut.status = "none"
       /\ codecIn.seedLen # SeedSize) => codecPc = "error"

\* C22: joining the chunk files that split wrote for a legal plan, in plan
\* order, gives back the input file
SplitJoinRoundTrip ==
    /\ splitPc # "error"
    /\ splitPc = "joined" => joined = splitIn.data

SplitJoinWitness ==
    /\ splitPc = "joined"
    /\ Len(splitIn.plan) >= 2
    /\ Len(joined) = MaxSplitLen

\* C21: whenever the planner succeeds and every drive operation succeeds,
\* the upload pipeline runs to its end and the download pipeline with the
\* key file it wrote produces the uploaded bytes
PipelineRoundTrip ==
    /\ roundTrip.pc # "crashed"
    /\ roundTrip.pc = "failed" => "plan" \notin DOMAIN roundTrip
    /\ roundTrip.pc = "done" => roundTrip.out = roundTrip.data

\* the same for files whose length differs from the minimum gap and noise
\* blocks no longer than the read buffer
PipelineRoundTripRegular ==
    (Len(roundTrip.data) # defaultMinGap /\ roundTrip.B <= ReadBufferSize) =>
        PipelineRoundTrip

\* the validations of a download request as the specification lists them,
\* on the StoredFile and the accounts the handler reads
KeyFieldMissing(key) == key.file_id = 0 \/ key.seed = 0

FileOfUser(userID, key) ==
    /\ key.file_id \in DlFileIds
    /\ dlFiles[key.file_id].status # "none"
    /\ dlFiles[key.file_id].user_id = userID

FileValidationFails(userID, key) ==
    \/ KeyFieldMissing(key)
    \/ ~FileOfUser(userID, key)
    \/ dlFiles[key.file_id].seed # key.seed
    \/ dlFiles[key.file_id].status = "deleted"

ChunkLinked(chunk, userID) ==
    \E acc \in dlAccounts[userID] :
        \/ chunk.drive_id # 0 /\ acc.drive_id = chunk.drive_id
        \/ chunk.drive_account_id # 0 /\ acc.id = chunk.drive_account_id

DriveValidationFails(req) ==
    \E i \in 1..Len(req.storedFile.chunks) : ~ChunkLinked(req.storedFile.chunks[i], req.user)

\* C24: a download request is rejected, creating no DownloadSession and
\* starting no background job, whenever one of its validations fails on
\* what the handler reads: file_id or seed missing, no StoredFile of the
\* user with that file_id, a different seed, a deleted StoredFile, or a
\* chunk whose drive is linked neither by drive_id nor by drive_account_id;
\* every DownloadSession and job comes from a request answered 200
DownloadRejectedOnInvalid ==
    [][/\ (dlReq.pc = "idle" /\ dlReq'.pc = "verified") =>
              ~FileValidationFails(dlReq'.user, dlReq'.key)
       /\ (dlReq.pc = "idle" /\ dlReply'.n # dlReply.n) =>
              /\ dlReply'.code >= 400
              /\ dlSessions' = dlSessions /\ dlJobs' = dlJobs
       /\ (dlReq.pc = "verified" /\ dlReq'.pc = "idle" /\ DriveValidationFails(dlReq)) =>
              /\ dlReply'.code >= 400
              /\ dlSessions' = dlSessions /\ dlJobs' = dlJobs
       /\ (dlSessions' # dlSessions \/ dlJobs' # dlJobs) =>
              /\ dlReq.pc = "verified" /\ dlReply'.code = 200
              /\ dlSessions' = dlSessions + 1 /\ dlJobs' = dlJobs + 1]_vars

\* a request for an active file with the right seed was refused because a
\* drive of one of its chunks had been unlinked, and nothing was started
DownloadRejectedWitness ==
    /\ dlReply.error = "drive not available for chunk"
    /\ dlReply.code = 400
    /\ dlReply.key.seed = dlFiles[dlReply.key.file_id].seed
    /\ dlSessions = 0
    /\ dlJobs = 0

\* C25: for one user, a request naming a file_id that does not exist and a
\* request naming an existing file_id with a non-matching seed receive the
\* same HTTP status
SeedMismatchHidesExistence ==
    \A u \in UserIds, existing \in KeyFileInputs, absent \in KeyFileInputs :
        (/\ ~KeyFieldMissing(existing) /\ ~KeyFieldMissing(absent)
         /\ FileOfUser(u, existing)
         /\ dlFiles[existing.file_id].seed # existing.seed
         /\ ~FileOfUser(u, absent))
        => VerifyKeyFile(existing, GetStoredFileByFileID(u, existing.file_id)).code
             = VerifyKeyFile(absent, GetStoredFileByFileID(u, absent.file_id)).code

\* C26: once the cleanup timer of a pipeline that completed has fired, the
\* key file that pipeline wrote into the temp directory is gone
KeyFileRemovedAfterCleanup ==
    \A r \in cleaned :
        (runs[r].pc = "done" /\ runs[r].keyed /\ RunsOf(runs[r].sid) = {r})
            => ~keyFiles[runs[r].sid]

\* C27: a chunk, finalize or status request naming a session owned by
\* another user is answered 401, one naming a session id that does not exist
\* is answered 404, and in both cases no session state changes
SessionErrorStatuses ==
    [][sessReply'.n # sessReply.n =>
          LET q == sessReply' IN
             /\ (sessions[q.sid].status # "none" /\ sessions[q.sid].user_id # q.user)
                  => (q.code = 401 /\ sessVars' = sessVars)
             /\ sessions[q.sid].status = "none"
                  => (q.code = 404 /\ sessVars' = sessVars)]_vars

\* the same for the status requests the store served, and no refused
\* request changes state
StatusRequestErrorStatuses ==
    [][(sessReply'.n # sessReply.n /\ sessReply'.code # 500) =>
          LET q == sessReply' IN
             /\ (q.handler = "status" /\ sessions[q.sid].status # "none"
                                      /\ sessions[q.sid].user_id # q.user) => q.code = 401
             /\ (q.handler = "status" /\ sessions[q.sid].status = "none") => q.code = 404
             /\ sessVars' = sessVars]_vars

\* a header that carries no bearer token, a malformed one or an invalid one
BadBearer(h) ==
    \/ h = NoHeader
    \/ h.scheme # "Bearer"
    \/ h.token.kind # "jwt"
    \/ h.token.alg # "HS256"
    \/ h.token.key # "jwtSecret"
    \/ h.token.expired
    \/ h.token.sub # "hex"

\* C28: a request to a protected route with a missing, malformed or invalid
\* bearer token is answered 401 and the wrapped handler does not run, so no
\* state changes
BadBearerRejected ==
    [][(authReply'.n # authReply.n /\ BadBearer(authReply'.header)) =>
          /\ authReply'.code = 401
          /\ handlerRuns' = handlerRuns
          /\ <<codecVars, planVars, sessVars, maniVars, splitVars, roundTrip,
                dlVars, cleanVars, sessReply>>' =
             <<codecVars, planVars, sessVars, maniVars, splitVars, roundTrip,
               dlVars, cleanVars, sessReply>>]_vars

\* a well-formed HS256 token signed with another key was refused after a
\* request with a good token had run its handler
BadBearerWitness ==
    /\ authReply.n >= 2
    /\ authReply.header.scheme = "Bearer"
    /\ authReply.header.token.kind = "jwt"
    /\ authReply.header.token.alg = "HS256"
    /\ authReply.header.token.key = "other"
    /\ ~authReply.header.token.expired
    /\ authReply.header.token.sub = "hex"
    /\ authReply.code = 401
    /\ handlerRuns = 1

\* the drive a plan entry names, and the bytes left before entry i
PlanDrive(i) == planIn.driveSpaces[planOut.plan[i].drive_account_id]

PlanRemainingBefore(i) ==
    planIn.fileSize - SumSeq([j \in 1..(i - 1) |-> planOut.plan[j].size])

UsableIndices ==
    {i \in 1..Len(planIn.driveSpaces) :
        planIn.driveSpaces[i].avail /\ planIn.driveSpaces[i].free > 0}

\* the chunks of a successful greedy plan: usable drives taken in descending
\* free_space order, each given min(remaining, free_space) while bytes remain
GreedyAllocation ==
    LET plan == planOut.plan
        used(i) == {plan[j].drive_account_id : j \in 1..i}
    IN /\ \A i \in 1..Len(plan) :
             /\ plan[i].drive_account_id \in UsableIndices
             /\ plan[i].drive_account_id \notin used(i - 1)
             /\ PlanRemainingBefore(i) > 0
             /\ plan[i].size = Min(PlanRemainingBefore(i), PlanDrive(i).free)
             /\ \A d \in UsableIndices \ used(i) :
                   planIn.driveSpaces[d].free <= PlanDrive(i).free
       /\ PlanRemainingBefore(Len(plan) + 1) <= 0

\* C31 as stated: greedy takes the usable drives in descending free_space
\* order, gives each min(remaining, free_space) until nothing remains, and
\* succeeds exactly when the usable drives hold at least file_size
GreedyAsSpecified ==
    (planPc = "done" /\ planIn.strategy = StrategyGreedy) =>
        /\ planOut.ok <=> UsableFreeSpace >= planIn.fileSize
        /\ planOut.ok => GreedyAllocation

\* C31: the same allocation, and greedy succeeds exactly when some drive is
\* usable and the usable drives hold at least file_size
GreedyAsAmended ==
    (planPc = "done" /\ planIn.strategy = StrategyGreedy) =>
        /\ planOut.ok <=> (~NoDriveUsable /\ UsableFreeSpace >= planIn.fileSize)
        /\ planOut.ok => GreedyAllocation

\* a greedy plan of two chunks whose first chunk is on the second drive
GreedyWitness ==
    /\ PlanSucceeded
    /\ planIn.strategy = StrategyGreedy
    /\ Len(planOut.plan) >= 2
    /\ planOut.plan[1].drive_account_id > planOut.plan[2].drive_account_id
    /\ PlanDrive(1).free > PlanDrive(2).free

\* the usable drives of the request, in input order
UsableDrives == SelectSeq(planIn.driveSpaces, UsableDrive)

\* the balanced assignment: floor(file_size / D) for the first D-1 usable
\* drives, the remainder for the last
BalancedAssignment(i) ==
    LET D == Len(UsableDrives)
    IN IF i < D THEN planIn.fileSize \div D
       ELSE planIn.fileSize - (D - 1) * (planIn.fileSize \div D)

BalancedFits == \A i \in 1..Len(UsableDrives) : BalancedAssignment(i) <= UsableDrives[i].free

\* the bytes a plan puts on the usable drive i
PlanSizeOn(i) ==
    SumSeq([j \in 1..Len(planOut.plan) |->
               IF planOut.plan[j].drive_account_id = UsableDrives[i].id
               THEN planOut.plan[j].size ELSE 0])

\* C32: balanced gives the first D-1 usable drives floor(file_size / D) and
\* the last the remainder, in input drive order; when one of these
\* assignments exceeds its drive's free_space the result is exactly the
\* greedy plan over the same drives
BalancedAsSpecified ==
    (planPc = "done" /\ planIn.strategy = StrategyBalanced
       /\ UsableFreeSpace >= planIn.fileSize) =>
        IF BalancedFits
        THEN /\ planOut.ok
             /\ \A i \in 1..Len(UsableDrives) : PlanSizeOn(i) = BalancedAssignment(i)
             /\ \A j \in 1..(Len(planOut.plan) - 1) :
                   planOut.plan[j].drive_account_id < planOut.plan[j + 1].drive_account_id
        ELSE planOut = calculateGreedyPlan(planIn.fileSize, UsableDrives)

\* the part that holds: the balanced assignment when every drive can take it
BalancedWhenFits ==
    (planPc = "done" /\ planIn.strategy = StrategyBalanced
       /\ UsableFreeSpace >= planIn.fileSize /\ BalancedFits) => BalancedAsSpecified

\* the proportional sizes as specified, in exact arithmetic: drive i gets
\* floor(file_size * free_i / total), the last drive the residue, each
\* clamped to its free_space
RECURSIVE ProportionalSpecSize(_)
ProportionalSpecSize(i) ==
    LET D == Len(UsableDrives)
        share == IF i < D
                 THEN (planIn.fileSize * UsableDrives[i].free) \div SumFree(UsableDrives)
                 ELSE planIn.fileSize
                        - SumSeq([j \in 1..(i - 1) |-> ProportionalSpecSize(j)])
    IN Min(share, UsableDrives[i].free)

ProportionalSpecSum ==
    SumSeq([i \in 1..Len(UsableDrives) |-> ProportionalSpecSize(i)])

\* C33: proportional gives drive i floor(file_size * free_i / sum of
\* free_space), the last drive the residue, each clamped to its free_space;
\* it returns an error when the clamped sizes sum to less than file_size and
\* otherwise the plan of exactly these sizes
ProportionalAsSpecified ==
    (planPc = "done" /\ planIn.strategy = StrategyProportional
       /\ planIn.fileSize > 0 /\ ~NoDriveUsable) =>
        IF ProportionalSpecSum < planIn.fileSize
        THEN planOut = PlanErr
        ELSE /\ planOut.ok
             /\ \A i \in 1..Len(UsableDrives) : PlanSizeOn(i) = ProportionalSpecSize(i)

\* the part that holds: a proportional plan never sums short and never
\* exceeds a drive
ProportionalNeverShort ==
    (PlanSucceeded /\ planIn.strategy = StrategyProportional) =>
        /\ SumSeq([j \in 1..Len(planOut.plan) |-> planOut.plan[j].size]) = planIn.fileSize
        /\ \A i \in 1..Len(UsableDrives) : PlanSizeOn(i) <= UsableDrives[i].free

\* C34: a status poll returns the session document as one read; whenever the
\* document's status is complete its processing_progress is 100 and its
\* completed_at is set
CompleteIsAtomic ==
    \A s \in SessionIds :
        sessions[s].status = "complete" =>
            sessions[s].processing_progress = 100 /\ sessions[s].completed_at

\* the part that holds: status complete comes with completed_at
CompleteHasCompletedAt ==
    \A s \in SessionIds : sessions[s].status = "complete" => sessions[s].completed_at

\* C35: the finalize handler returning or the client disconnecting cancels
\* no store or drive call of the pipeline, and the pipeline never ends with
\* the session in a status other than complete or failed
PipelineScopeIndependent ==
    /\ scope.cancelledCalls = 0
    /\ ScopePipelineEnded => scope.status \in {"complete", "failed"}

\* the part that holds: a pipeline started with context.Background()
PipelineScopeBackground ==
    scope.variant = "background" =>
        /\ scope.cancelledCalls = 0
        /\ ScopePipelineEnded => scope.status \in {"complete", "failed"}

\* C36: a drive holds at most one manifest blob, whatever GetOrCreateManifest
\* calls are made on its account
OneManifestPerDrive == driveBlobs <= 1

InFlight == {i \in PoolChunks : workers[i] = "downloading"}

\* C37: at most max(1, MAX_PARALLEL_DOWNLOADS) chunk downloads are in flight
\* at any time, and DownloadChunksParallel returns only after every started
\* download has finished
BoundedParallelism ==
    /\ Cardinality(InFlight) <= Max(1, pool.env)
    /\ pool.pc \in {"returned", "error"} =>
          \A i \in PoolChunks : workers[i] \in {"none", "downloaded", "failed"}

\* the bound is reached while another started download waits
BoundedParallelismWitness ==
    /\ Cardinality(InFlight) = Max(1, pool.env)
    /\ pool.env <= 0
    /\ Cardinality({i \in PoolChunks : workers[i] = "started"}) >= 2

\* C38: two download sessions running concurrently never read, overwrite or
\* delete each other's temp artifacts
TempArtifactsDisjoint == tempCollisions = {}

\* the part that holds: sessions of different users or files do not collide
TempDisjointAcrossFiles ==
    (\A d, e \in TempSessions :
        (d # e /\ tempProcs[d].pc # "none") => tempProcs[d].path # tempProcs[e].path)
      => tempCollisions = {}

\* C40: a chunk request on a session whose status is processing, complete or
\* failed leaves the session's temp file and its uploaded_size unchanged
LateChunkLeavesFile ==
    [][\A c \in Slots :
          (chunkReqs[c].pc = "write" /\ chunkReqs'[c].pc = "idle") =>
              /\ tempLen' = tempLen
              /\ received' = received
              /\ sessions'[chunkReqs[c].sid].uploaded_size
                    = sessions[chunkReqs[c].sid].uploaded_size]_vars

====
